---- MODULE Spec2Model ----
(***************************************************************************)
(* SpendAI proxy-credential and usage-governance engine.                   *)
(*                                                                         *)
(* The datastore tables (proxy_keys, usage_logs, alerts, the budget        *)
(* columns and the upstream secret of organizations) are the shared state, *)
(* next to the requests in flight; every awaited datastore or upstream     *)
(* call of a handler is one atomic step.                                   *)
(* Money is held in micro-dollars (the 6 decimals of usage_logs.cost_usd), *)
(* budgets in cents (DECIMAL(12,2)).  Time is a counter of ticks; a month  *)
(* is MonthLen ticks long.                                                 *)
(***************************************************************************)
EXTENDS Integers, Sequences, FiniteSets, TLC

(***************************************************************************)
(* Bounds of the model                                                     *)
(***************************************************************************)
MaxTime == 2
MaxKeys == 2
NumReqs == 2
MonthLen == 2
MaxTokens == 6
MaxOther == 2
MaxResets == 2
MaxRefused == 2

NULL == 0 - 1
NullId == "NULL"

\* JavaScript values whose type the code tests with typeof.
Num(n) == [type |-> "number", value |-> n]
Undefined == [type |-> "undefined"]

Orgs == {"o1"}
Projects == {"p1", "p2"}
Secrets == {"s1", "s2"}
KeyIds == 1..MaxKeys
Reqs == 1..NumReqs

VARIABLES
    now,          \* the clock read by new Date() and by the datastore's NOW()
    proxy_keys,   \* table proxy_keys: key id -> row, or NoRow
    issued,       \* key id -> the plaintext secret createProxyKey returned once
    ret,          \* the result of the last ProxyKeyService call
    usage_logs,   \* table usage_logs: a set of rows
    alerts,       \* table alerts: a set of rows
    orgBudget,    \* organizations.monthly_budget_usd, in cents, or NULL
    projBudget,   \* projects.monthly_budget_usd, in cents, or NULL
    projects,     \* table projects: the ids of its rows
    ev,           \* the checkBudgets call started by each usage write
    orgKey,       \* organizations.openai_api_key: a string, NoString when not configured
    req,          \* each POST /v1/chat/completions request: its handler's position,
                  \* its locals and the response sent to the client
    server,       \* the process: its state and the two secrets of process.env
    limiter       \* the hit counters of globalLimiter and proxyLimiter

keyVars == <<proxy_keys, issued, ret>>
ledgerVars == <<usage_logs, alerts, orgBudget, projBudget, projects, ev>>
proxyVars == <<orgKey, req>>
envVars == <<server, limiter>>
vars == <<now, proxy_keys, issued, ret, usage_logs, alerts, orgBudget, projBudget, projects,
          ev, orgKey, req, server, limiter>>

NoRow == [present |-> FALSE]
NoSecret == "none"
NoRet == [op |-> "none"]

\* A process that passed its startup checks and listens, with a master key
\* of 64 hex characters and a pepper.
ListeningServer ==
    [state |-> "listening", SUPABASE_URL |-> "set", SUPABASE_ANON_KEY |-> "set",
     SUPABASE_SERVICE_KEY |-> "set", OPENAI_KEY_ENCRYPTION_SECRET |-> "hex64",
     PROXY_KEY_SECRET |-> "set"]

\* env.validate: every required variable is present (not unset, not empty).
requiredVars ==
    {"SUPABASE_URL", "SUPABASE_ANON_KEY", "SUPABASE_SERVICE_KEY",
     "OPENAI_KEY_ENCRYPTION_SECRET", "PROXY_KEY_SECRET"}
validate(env) == \A v \in requiredVars : env[v] # "absent"

\* The limits of the two limiters: max of proxyLimiter and of globalLimiter.
ProxyMax == 60
GlobalMax == 1000

\* The two limiters' stores before any request: the hits of the client
\* address in globalLimiter's window and the hits of each key in
\* proxyLimiter's window; then, per bearer token, how many requests arrived
\* with it in the window of its key and whether globalLimiter refused one of
\* them; and the last request to the proxy endpoint: its bearer token, its
\* position among the requests with that token in the window, the hits of
\* its key, what became of it, and whether globalLimiter had refused none of
\* that token's requests in the window up to it.  The last three fields
\* count the requests to other routes, the windows that ended and the
\* requests globalLimiter refused.
NoLast == [bearer |-> "none", index |-> 0, hits |-> 0, outcome |-> "none", clean |-> TRUE]
LimiterKeys == Secrets \cup {"ip"}
NoHits ==
    [global |-> 0,
     proxy |-> [k \in LimiterKeys |-> 0],
     arrived |-> [s \in Secrets |-> 0],
     blocked |-> [s \in Secrets |-> FALSE],
     last |-> NoLast,
     others |-> 0, resets |-> 0, refused |-> 0]

InitEnv ==
    /\ server = ListeningServer
    /\ limiter = NoHits

(***************************************************************************)
(* ProxyKeyService                                                         *)
(***************************************************************************)

\* HMAC-SHA256 of the key value under the server secret: a keyed digest,
\* distinct from its input, equal exactly for equal inputs.
hashKeyValue(keyValue) == <<"hmac-sha256", "PROXY_KEY_SECRET", keyValue>>

\* The row inserted by createProxyKey: is_active true, revoked_at left NULL.
newKeyRow(organizationId, projectId, keyValue) ==
    [present |-> TRUE,
     organization_id |-> organizationId,
     project_id |-> projectId,
     key_value |-> hashKeyValue(keyValue),
     is_active |-> TRUE,
     revoked_at |-> NULL]

\* The UNIQUE constraint of proxy_keys.key_value; the insert also fails when
\* the project it references has no row (REFERENCES projects(id)).
keyValueTaken(table, keyHash) ==
    \E k \in DOMAIN table : table[k].present /\ table[k].key_value = keyHash

CreateProxyKey(organizationId, projectId, keyValue) ==
    /\ \E k \in KeyIds : ~proxy_keys[k].present
    /\ LET id == CHOOSE k \in KeyIds :
                    ~proxy_keys[k].present /\ \A j \in KeyIds : ~proxy_keys[j].present => k <= j
           row == newKeyRow(organizationId, projectId, keyValue)
       IN IF keyValueTaken(proxy_keys, row.key_value) \/ projectId \notin projects
          THEN /\ ret' = [op |-> "create", success |-> FALSE]
               /\ UNCHANGED <<proxy_keys, issued>>
          ELSE /\ proxy_keys' = [proxy_keys EXCEPT ![id] = row]
               /\ issued' = [issued EXCEPT ![id] = keyValue]
               /\ ret' = [op |-> "create", success |-> TRUE]

\* A revocation that leaves the revocation time unset.
revokeUpdate_NoStamp(row, t) == [row EXCEPT !.is_active = FALSE]

\* The update of revokeProxyKey, applied to a matched row.
revokeUpdate(row, t) == [row EXCEPT !.is_active = FALSE, !.revoked_at = t]

\* The rows the update's filter (.eq('id').eq('organization_id')) matches.
revokeMatches(table, keyId, organizationId) ==
    {k \in DOMAIN table : table[k].present /\ k = keyId
                            /\ table[k].organization_id = organizationId}

RevokeProxyKey(keyId, organizationId) ==
    /\ issued' = issued
    /\ IF revokeMatches(proxy_keys, keyId, organizationId) = {}
       THEN /\ ret' = [op |-> "revoke", key |-> keyId, success |-> FALSE]
            /\ proxy_keys' = proxy_keys
       ELSE /\ proxy_keys' = [proxy_keys EXCEPT ![keyId] = revokeUpdate(@, now)]
            /\ ret' = [op |-> "revoke", key |-> keyId, success |-> TRUE]

\* The rows verifyProxyKey reads: .eq('is_active', true).
activeKeys(table) == {k \in DOMAIN table : table[k].present /\ table[k].is_active}

\* A comparison that only checks that the two digests have the same length.
timingSafeEqual_LengthOnly(stored, provided) == Len(stored) = Len(provided)

\* crypto.timingSafeEqual on the two digests, after the length check.
timingSafeEqual(stored, provided) == Len(stored) = Len(provided) /\ stored = provided

\* Error messages are sequences of words.
MsgInvalidKey == <<"Invalid", "or", "revoked", "proxy", "key">>
MsgVerificationFailed == <<"Key", "verification", "failed">>

\* A catch that rethrows the error it caught.
verifyCatch_Rethrow(message) == [success |-> FALSE, error |-> message]

\* The catch of verifyProxyKey: whatever was thrown inside, the error that
\* leaves is 'Invalid or revoked proxy key'.
verifyCatch(message) == [success |-> FALSE, error |-> MsgInvalidKey]

\* verifyProxyKey: hash the provided value, scan the active rows for an equal
\* hash, and return the matched row's scope; every failure is the same error.
verifyProxyKey(keyValue, table, dbError) ==
    LET keyHash == hashKeyValue(keyValue)
        keys == activeKeys(table)
        matched == {k \in keys : timingSafeEqual(table[k].key_value, keyHash)}
    IN IF dbError THEN verifyCatch(MsgVerificationFailed)
       ELSE IF keys = {} \/ matched = {} THEN verifyCatch(MsgInvalidKey)
       ELSE LET m == CHOOSE k \in matched : TRUE
            IN IF ~table[m].is_active
               THEN verifyCatch(MsgInvalidKey)
               ELSE [success |-> TRUE,
                     key |-> [id |-> m,
                              organization_id |-> table[m].organization_id,
                              project_id |-> table[m].project_id,
                              is_active |-> table[m].is_active]]

\* Why a verification failed, which the caller is not told: the lookup
\* failed, no credential is active, the value belongs to a revoked
\* credential, or it belongs to none.
verificationFailure(keyValue, table, dbError) ==
    LET keyHash == hashKeyValue(keyValue)
        rows == {k \in DOMAIN table : table[k].present /\ table[k].key_value = keyHash}
    IN IF dbError THEN "lookup"
       ELSE IF activeKeys(table) = {} THEN "empty"
       ELSE IF rows = {} THEN "unknown"
       ELSE IF \A k \in rows : ~table[k].is_active THEN "revoked"
       ELSE "none"

VerifyProxyKey(keyValue, dbError) ==
    /\ ret' = [op |-> "verify", arg |-> keyValue, dbError |-> dbError, at |-> now,
               result |-> verifyProxyKey(keyValue, proxy_keys, dbError)]
    /\ UNCHANGED <<proxy_keys, issued>>

Tick ==
    /\ now < MaxTime
    /\ now' = now + 1

(***************************************************************************)
(* PricingService                                                          *)
(***************************************************************************)

\* The price table, in hundredths of a micro-dollar per token (the table's
\* USD per million tokens, times 100, so that 0.15 and 0.50 are integers).
getPricingTable ==
    [m \in {"gpt-3.5-turbo", "gpt-3.5-turbo-0125", "gpt-3.5-turbo-1106", "gpt-4",
            "gpt-4-0613", "gpt-4-turbo", "gpt-4-turbo-preview", "gpt-4o", "gpt-4o-mini"} |->
        CASE m \in {"gpt-3.5-turbo", "gpt-3.5-turbo-0125"} -> [prompt |-> 50, completion |-> 150]
          [] m = "gpt-3.5-turbo-1106" -> [prompt |-> 100, completion |-> 200]
          [] m \in {"gpt-4", "gpt-4-0613"} -> [prompt |-> 3000, completion |-> 6000]
          [] m \in {"gpt-4-turbo", "gpt-4-turbo-preview"} -> [prompt |-> 1000, completion |-> 3000]
          [] m = "gpt-4o" -> [prompt |-> 500, completion |-> 1500]
          [] m = "gpt-4o-mini" -> [prompt |-> 15, completion |-> 60]]

NoPricing == [prompt |-> NULL, completion |-> NULL]

\* pricingTable[model] || null
getModelPricing(model) ==
    IF model \in DOMAIN getPricingTable THEN getPricingTable[model] ELSE NoPricing

\* Math.round(x) for x = n / 100, n >= 0: halves round up.
roundHundredths(n) == (n + 50) \div 100

\* calculateCost, in micro-dollars: the sum of the two products rounded to
\* 6 decimals of a dollar; 0 for a model without pricing.
calculateCost(model, promptTokens, completionTokens) ==
    LET pricing == getModelPricing(model)
    IN IF pricing = NoPricing
       THEN 0
       ELSE roundHundredths(promptTokens * pricing.prompt + completionTokens * pricing.completion)

\* A rounding that never gives less than one micro-dollar.
roundDouble_AtLeastOne(n) == {IF roundHundredths(n) = 0 THEN 1 ELSE roundHundredths(n)}

\* Math.round(totalCost * 1_000_000) on doubles, for the exact value n / 100:
\* when the exact value ends in .5 the double is the half or a neighbour of
\* it, and the result is the integer below or above; otherwise the double is
\* on the same side of the half as the exact value.
roundDouble(n) ==
    IF n % 100 = 50 THEN {n \div 100, n \div 100 + 1} ELSE {roundHundredths(n)}

\* The values calculateCost can return, in micro-dollars.
calculateCostDouble(model, promptTokens, completionTokens) ==
    LET pricing == getModelPricing(model)
    IN IF pricing = NoPricing
       THEN {0}
       ELSE roundDouble(promptTokens * pricing.prompt + completionTokens * pricing.completion)

\* calculateCost(model, p, c) and calculateCost(model, 2p, 2c).
CalculateCost(model, promptTokens, completionTokens) ==
    /\ \E cost \in calculateCostDouble(model, promptTokens, completionTokens),
          doubled \in calculateCostDouble(model, 2 * promptTokens, 2 * completionTokens) :
            ret' = [op |-> "cost", model |-> model, prompt_tokens |-> promptTokens,
                    completion_tokens |-> completionTokens, cost |-> cost,
                    doubled |-> doubled]
    /\ UNCHANGED <<proxy_keys, issued>>

(***************************************************************************)
(* Time                                                                    *)
(***************************************************************************)

\* new Date().toISOString().substring(0, 7): the calendar month of an instant.
monthYear(t) == t \div MonthLen

\* Date.UTC(year, month, 1): the first instant of the month of t.
startOfMonth(t) == (t \div MonthLen) * MonthLen

(***************************************************************************)
(* UsageLoggingService.logUsage                                            *)
(***************************************************************************)

\* The validation at the head of logUsage; "ok" or the error thrown.
logUsageValidation(params) ==
    IF \/ params.request_id = NullId \/ params.organization_id = NullId
       \/ params.project_id = NullId \/ params.proxy_key_id = NULL
       \/ params.model = NullId
    THEN "Missing required fields for usage logging"
    ELSE IF params.prompt_tokens.type # "number" \/ params.completion_tokens.type # "number"
    THEN "Token counts must be numbers"
    ELSE IF params.prompt_tokens.value < 0 \/ params.completion_tokens.value < 0
    THEN "Token counts cannot be negative"
    ELSE "ok"

\* The row logUsage inserts; id and created_at are set by the datastore.
usageRow(params, id, t) ==
    LET pricing == getModelPricing(params.model)
    IN [id |-> id,
        request_id |-> params.request_id,
        organization_id |-> params.organization_id,
        project_id |-> params.project_id,
        proxy_key_id |-> params.proxy_key_id,
        model |-> params.model,
        tokens_prompt |-> params.prompt_tokens.value,
        tokens_completion |-> params.completion_tokens.value,
        cost_usd |-> calculateCost(params.model, params.prompt_tokens.value,
                                   params.completion_tokens.value),
        price_prompt_per_million |-> pricing.prompt,
        price_completion_per_million |-> pricing.completion,
        currency |-> "USD",
        status |-> "success",
        created_at |-> t]

\* gen_random_uuid() of a table: an id no row of the table has.
freshId(table) ==
    IF table = {} THEN 1
    ELSE 1 + (CHOOSE n \in {x.id : x \in table} : \A x \in table : x.id <= n)

\* The insert into usage_logs fails on a datastore error, and when the
\* project it references has no row (REFERENCES projects(id)).
insertFails(params, insertError) == insertError \/ params.project_id \notin projects

\* budgetService.checkBudgets(organization_id, project_id), not awaited: the
\* call runs up to its first await, the read of the organization's budget.
startCheckBudgets(organizationId, projectId) ==
    [pc |-> "budget", scope |-> "organization",
     organization_id |-> organizationId, project_id |-> projectId,
     budget |-> NULL, since |-> NULL, actual |-> NULL,
     threshold |-> NULL, month_year |-> NULL,
     orgAlert |-> "none", projAlert |-> "none", error |-> "none"]

(***************************************************************************)
(* AlertService.recordAlert and the alerts table                           *)
(***************************************************************************)

\* A table without the two unique indexes.
uniqueViolation_NoIndex(table, row) == FALSE

\* idx_unique_org_alert_per_month and idx_unique_project_alert_per_month:
\* does inserting row violate one of them?
uniqueViolation(table, row) ==
    \E a \in table :
        /\ a.threshold_percent = row.threshold_percent
        /\ a.month_year = row.month_year
        /\ IF row.project_id = NullId
           THEN a.project_id = NullId /\ a.organization_id = row.organization_id
           ELSE a.project_id # NullId /\ a.project_id = row.project_id

\* DECIMAL(12,2) of an amount in micro-dollars, in cents.
toCents(micro) == (micro + 5000) \div 10000

\* The row recordAlert inserts; month_year is read from the clock at the call.
alertRow(params, id, month) ==
    [id |-> id,
     organization_id |-> params.organization_id,
     project_id |-> params.project_id,
     alert_level |-> params.alert_level,
     threshold_percent |-> params.threshold_percent,
     budget_amount |-> params.budget_amount,
     actual_spend |-> toCents(params.actual_spend),
     month_year |-> month]

\* recordAlert: the outcome of the insert as the caller sees it, and the table
\* after it.  A unique violation (23505) is a success; any other error is
\* caught and returned as a failure.
recordAlert(table, params, month, insertError) ==
    LET row == alertRow(params, freshId(table), month)
    IN IF insertError
       THEN [table |-> table, result |-> "error"]
       ELSE IF uniqueViolation(table, row)
       THEN [table |-> table, result |-> "already_sent"]
       ELSE [table |-> table \cup {row}, result |-> "recorded"]

(***************************************************************************)
(* BudgetService                                                           *)
(***************************************************************************)

RECURSIVE sumCost(_)
sumCost(rows) ==
    IF rows = {} THEN 0
    ELSE LET r == CHOOSE x \in rows : TRUE IN r.cost_usd + sumCost(rows \ {r})

\* A month-to-date query that leaves out the rows created at the month's
\* first instant (.gt in place of .gte).
calculateMTDSpend_Exclusive(table, organizationId, projectId, since) ==
    sumCost({r \in table :
                /\ r.organization_id = organizationId
                /\ r.created_at > since
                /\ (projectId # NullId => r.project_id = projectId)})

\* calculateMTDSpend, in micro-dollars: the rows of the organization (and of
\* the project, when one is given) created at or after the start of the month.
calculateMTDSpend(table, organizationId, projectId, since) ==
    sumCost({r \in table :
                /\ r.organization_id = organizationId
                /\ r.created_at >= since
                /\ (projectId # NullId => r.project_id = projectId)})

\* A ladder walked from the lowest threshold up.
thresholds_Ascending == <<50, 75, 90, 100>>

\* evaluateThresholds: the ladder, checked high to low.
thresholds == <<100, 90, 75, 50>>

\* A test that takes any spend for a crossing.
crossed_AnySpend(actual, budget, t) == actual > 0

\* percentUsed >= t, with percentUsed = (actual / budget) * 100.
crossed(actual, budget, t) == actual * 100 >= t * (budget * 10000)

\* The first threshold of the ladder the spend has crossed, or NULL.
firstCrossed(actual, budget) ==
    LET hit == {i \in 1..Len(thresholds) : crossed(actual, budget, thresholds[i])}
    IN IF hit = {} THEN NULL
       ELSE thresholds[CHOOSE i \in hit : \A j \in hit : i <= j]

\* A test that takes every budget that is not null for a ceiling.
budgetSet_NonNull(budget) == budget # NULL

\* budget > 0 in checkBudgets: false for null.
budgetSet(budget) == budget # NULL /\ budget > 0

ProjectOrg(p) == "o1"

\* A checkBudgets that returns once the organization scope is finished.
afterScope_OrgOnly(e) ==
    [e EXCEPT !.pc = "done",
              !.budget = NULL, !.since = NULL, !.actual = NULL,
              !.threshold = NULL, !.month_year = NULL]

\* The continuation of checkBudgets once a scope is finished: the project
\* scope follows the organization scope, and ends the call.
afterScope(e) ==
    IF e.scope = "organization"
    THEN [e EXCEPT !.pc = "budget", !.scope = "project",
                   !.budget = NULL, !.since = NULL, !.actual = NULL,
                   !.threshold = NULL, !.month_year = NULL]
    ELSE [e EXCEPT !.pc = "done",
                   !.budget = NULL, !.since = NULL, !.actual = NULL,
                   !.threshold = NULL, !.month_year = NULL]

\* A checkBudgets without its catch: the error rejects the call.
failCheck_Rejects(e, what) ==
    [e EXCEPT !.pc = "rejected", !.error = what,
              !.budget = NULL, !.since = NULL, !.actual = NULL,
              !.threshold = NULL, !.month_year = NULL]

\* The catch of checkBudgets: the error is logged and the call ends.
failCheck(e, what) ==
    [e EXCEPT !.pc = "done", !.error = what,
              !.budget = NULL, !.since = NULL, !.actual = NULL,
              !.threshold = NULL, !.month_year = NULL]

\* getOrgBudget / getProjectBudget, first query: the budget column, an error
\* when .single() finds no row.  When it returns, calculateMTDSpend reads the
\* clock for the start of the month.
BudgetRead(w, dbError) ==
    /\ ev[w].pc = "budget"
    /\ LET e == ev[w]
           noRow == e.scope = "project" /\ e.project_id \notin projects
       IN ev' = [ev EXCEPT ![w] =
                    IF dbError \/ noRow
                    THEN failCheck(e, "budget lookup")
                    ELSE [e EXCEPT !.pc = "spend",
                                   !.budget = IF e.scope = "organization"
                                              THEN orgBudget[e.organization_id]
                                              ELSE projBudget[e.project_id],
                                   !.since = startOfMonth(now)]]
    /\ UNCHANGED <<usage_logs, alerts, orgBudget, projBudget, projects>>

\* The usage_logs query of calculateMTDSpend returns; checkBudgets tests the
\* budget and evaluateThresholds walks the ladder, calling recordAlert for
\* the first threshold crossed.
SpendRead(w, dbError) ==
    /\ ev[w].pc = "spend"
    /\ LET e == ev[w]
           actual == calculateMTDSpend(
                         usage_logs,
                         IF e.scope = "organization" THEN e.organization_id
                                                     ELSE ProjectOrg(e.project_id),
                         IF e.scope = "organization" THEN NullId ELSE e.project_id,
                         e.since)
           t == IF budgetSet(e.budget) THEN firstCrossed(actual, e.budget) ELSE NULL
       IN ev' = [ev EXCEPT ![w] =
                    IF dbError
                    THEN failCheck(e, "spend query")
                    ELSE IF t = NULL
                    THEN afterScope(e)
                    ELSE [e EXCEPT !.pc = "alert", !.actual = actual,
                                   !.threshold = t, !.month_year = monthYear(now)]]
    /\ UNCHANGED <<usage_logs, alerts, orgBudget, projBudget, projects>>

\* The insert of recordAlert returns.
AlertInsert(w, insertError) ==
    /\ ev[w].pc = "alert"
    /\ LET e == ev[w]
           out == recordAlert(alerts,
                              [organization_id |-> e.organization_id,
                               project_id |-> IF e.scope = "organization" THEN NullId
                                                                           ELSE e.project_id,
                               alert_level |-> e.scope,
                               threshold_percent |-> e.threshold,
                               budget_amount |-> e.budget,
                               actual_spend |-> e.actual],
                              e.month_year, insertError)
       IN /\ alerts' = out.table
          /\ ev' = [ev EXCEPT ![w] =
                       afterScope(IF e.scope = "organization"
                                  THEN [e EXCEPT !.orgAlert = out.result]
                                  ELSE [e EXCEPT !.projAlert = out.result])]
    /\ UNCHANGED <<usage_logs, orgBudget, projBudget, projects>>

\* logUsage called with valid parameters: the insert into usage_logs returns;
\* on success checkBudgets is started and not awaited.
LogUsage(w, params, insertError) ==
    /\ ev[w].pc = "idle"
    /\ logUsageValidation(params) = "ok"
    /\ IF insertFails(params, insertError)
       THEN /\ ev' = [ev EXCEPT ![w] = [pc |-> "failed"]]
            /\ UNCHANGED usage_logs
       ELSE /\ usage_logs' = usage_logs \cup {usageRow(params, freshId(usage_logs), now)}
            /\ ev' = [ev EXCEPT ![w] = startCheckBudgets(params.organization_id, params.project_id)]
    /\ UNCHANGED <<alerts, orgBudget, projBudget, projects>>

(***************************************************************************)
(* ProjectService.deleteProject and the foreign keys ON DELETE CASCADE     *)
(***************************************************************************)

\* The rows of a table that go with the row of a project.
cascade(table, projectId) == {x \in table : x.project_id = projectId}

\* DELETE FROM projects WHERE id = projectId AND organization_id =
\* organizationId: the row goes, and with it the rows of proxy_keys,
\* usage_logs and alerts that reference it.
DeleteProject(projectId, organizationId, dbError) ==
    /\ projectId \in projects
    /\ IF dbError \/ ProjectOrg(projectId) # organizationId
       THEN UNCHANGED <<projects, proxy_keys, usage_logs, alerts, projBudget>>
       ELSE /\ projects' = projects \ {projectId}
            /\ proxy_keys' = [k \in DOMAIN proxy_keys |->
                                 IF proxy_keys[k].present /\ proxy_keys[k].project_id = projectId
                                 THEN NoRow ELSE proxy_keys[k]]
            /\ usage_logs' = usage_logs \ cascade(usage_logs, projectId)
            /\ alerts' = alerts \ cascade(alerts, projectId)
            /\ projBudget' = [projBudget EXCEPT ![projectId] = NULL]
    /\ UNCHANGED <<now, issued, ret, orgBudget, ev, proxyVars, envVars>>

(***************************************************************************)
(* EncryptionService                                                       *)
(***************************************************************************)

\* A string is held as its split(':'): the sequence of its parts.  null and
\* the empty string have no parts.
Str(parts) == [parts |-> parts]
NoString == Str(<<>>)

\* The parts that match /^[0-9a-f]+$/i.
HexParts == {"iv1", "tag1", "ct1", "tag2"}

\* The organization's upstream secret and its AES-256-GCM bundle
\* iv:authTag:ciphertext under the master key.
PlainKey == Str(<<"sk-org">>)
encrypt(plaintext) == Str(<<"iv1", "tag1", "ct1">>)

\* getMasterKey: throws without the variable or when it is not 64 characters
\* long; 64 characters that are not hex give a key of the wrong length, which
\* createDecipheriv rejects.
masterKeyUsable(secret) == secret \notin {"absent", "short", "nonhex64"}

\* isEncrypted: three parts, all hex.
isEncrypted(value) ==
    /\ value # NoString
    /\ Len(value.parts) = 3
    /\ \A i \in 1..Len(value.parts) : value.parts[i] \in HexParts

\* decrypt: three parts, a usable master key, and a bundle whose tag
\* authenticates its iv and ciphertext; anything else throws.
decrypt(value, secret) ==
    IF Len(value.parts) = 3 /\ masterKeyUsable(secret) /\ value = encrypt(PlainKey)
    THEN [ok |-> TRUE, plaintext |-> PlainKey]
    ELSE [ok |-> FALSE, plaintext |-> NoString]

(***************************************************************************)
(* OpenAIProxyService and the route POST /v1/chat/completions              *)
(***************************************************************************)

\* Error messages are sequences of words, so that String.includes is a
\* search for a run of words.
includes(message, words) ==
    \E i \in 1..(Len(message) - Len(words) + 1) :
        SubSeq(message, i, i + Len(words) - 1) = words

MsgModelRequired == <<"model", "is", "required">>
MsgUnsupportedModel == <<"Unsupported", "model", ":">>
MsgFetchFailed == <<"Failed", "to", "fetch", "organization", "OpenAI", "key">>
MsgNotConfigured == <<"Organization", "OpenAI", "API", "key", "not", "configured">>
MsgDecryptApiKey == <<"Failed", "to", "decrypt", "organization", "OpenAI", "API", "key">>
MsgDecryptKey == <<"Failed", "to", "decrypt", "organization", "OpenAI", "key">>
MsgAxiosTimeout == <<"timeout", "of", "60000ms", "exceeded">>
MsgNetwork == <<"getaddrinfo", "ENOTFOUND", "api.openai.com">>
MsgTimeout == <<"OpenAI", "request", "timeout">>
MsgProxyFailed == <<"Proxy", "request", "failed">>
MsgMissingAuth == <<"Missing", "or", "invalid", "Authorization", "header">>
MsgInternal == <<"Internal", "proxy", "error">>
MsgLogFailed == <<"Failed", "to", "log", "usage", ":">>
MsgTokensNegative == <<"Token", "counts", "cannot", "be", "negative">>

Error(message, code) == [message |-> message, code |-> code]

getSupportedModels ==
    {"gpt-3.5-turbo", "gpt-3.5-turbo-0125", "gpt-3.5-turbo-1106", "gpt-4",
     "gpt-4-0613", "gpt-4-turbo", "gpt-4-turbo-preview", "gpt-4o", "gpt-4o-mini"}

\* A validation that accepts every model name.
validateModel_AnyName(model) ==
    IF model = NullId THEN [valid |-> FALSE, error |-> MsgModelRequired]
    ELSE [valid |-> TRUE, error |-> <<>>]

validateModel(model) ==
    IF model = NullId THEN [valid |-> FALSE, error |-> MsgModelRequired]
    ELSE IF model \notin getSupportedModels
    THEN [valid |-> FALSE, error |-> MsgUnsupportedModel \o <<model>>]
    ELSE [valid |-> TRUE, error |-> <<>>]

\* The Authorization header: absent, or a scheme followed by credentials.
NoHeader == [scheme |-> "none", credentials |-> ""]
AuthHeader(scheme, credentials) == [scheme |-> scheme, credentials |-> credentials]

\* The part of the header after 'Bearer ', or null.
extractBearerToken(authHeader) ==
    IF authHeader = NoHeader THEN NullId
    ELSE IF authHeader.scheme = "Bearer" THEN authHeader.credentials
    ELSE NullId

\* The inbound headers: authorization, accept, user-agent and one more; a
\* header that is absent or empty is "".
Headers(authorization, accept, userAgent, organization) ==
    ("authorization" :> authorization) @@ ("accept" :> accept)
        @@ ("user-agent" :> userAgent) @@ ("openai-organization" :> organization)
NoHeaders == Headers(NoHeader, "", "", "")

\* A string from its parts: parts.join(':').
RECURSIVE join(_)
join(parts) ==
    IF parts = <<>> THEN ""
    ELSE IF Len(parts) = 1 THEN parts[1]
    ELSE parts[1] \o ":" \o join(Tail(parts))

\* header.split('-').map(w => w.charAt(0).toUpperCase() + w.slice(1)).join('-')
allowedHeaders == {"accept", "user-agent"}
headerName(header) == IF header = "accept" THEN "Accept" ELSE "User-Agent"

NoForwardHeaders == [h \in {} |-> ""]

\* Headers built by copying every inbound header but authorization.
buildForwardHeaders_CopyAll(requestHeaders, openaiApiKey) ==
    LET copied == {h \in DOMAIN requestHeaders \ {"authorization"} : requestHeaders[h] # ""}
    IN [h \in {"Content-Type", "Authorization"} \cup copied |->
          IF h = "Content-Type" THEN "application/json"
          ELSE IF h = "Authorization" THEN "Bearer " \o join(openaiApiKey.parts)
          ELSE requestHeaders[h]]

\* buildForwardHeaders: Content-Type, Authorization with the organization's
\* key, and the inbound accept and user-agent when they are set.
buildForwardHeaders(requestHeaders, openaiApiKey) ==
    LET copied == {h \in allowedHeaders : requestHeaders[h] # ""}
    IN [h \in {"Content-Type", "Authorization"} \cup {headerName(c) : c \in copied} |->
          IF h = "Content-Type" THEN "application/json"
          ELSE IF h = "Authorization" THEN "Bearer " \o join(openaiApiKey.parts)
          ELSE requestHeaders[CHOOSE c \in copied : headerName(c) = h]]

\* The request body: model (NullId when absent) and messages ("none" when
\* absent or not an array, "empty" for [], "some" otherwise).
Body(model, messages) == [model |-> model, messages |-> messages]

validateChatCompletionRequest(body) ==
    IF body.model = NullId THEN [valid |-> FALSE, error |-> MsgModelRequired]
    ELSE IF body.messages = "none"
    THEN [valid |-> FALSE, error |-> <<"messages", "must", "be", "an", "array">>]
    ELSE IF body.messages = "empty"
    THEN [valid |-> FALSE, error |-> <<"messages", "cannot", "be", "empty">>]
    ELSE [valid |-> TRUE, error |-> <<>>]

\* What the upstream call gave: nothing yet; a timeout; a network error; or
\* a response with a status, a body and its own x-request-id header.
NoUsageObject ==
    [present |-> FALSE, prompt_tokens |-> Undefined, completion_tokens |-> Undefined,
     total_tokens |-> Undefined]
Usage(promptTokens, completionTokens, totalTokens) ==
    [present |-> TRUE, prompt_tokens |-> promptTokens,
     completion_tokens |-> completionTokens, total_tokens |-> totalTokens]
Data(kind, model, usage) ==
    [kind |-> kind, model |-> model, usage |-> usage, message |-> <<>>]
NoData == Data("none", NullId, NoUsageObject)
NoUpstream == [kind |-> "none", status |-> NULL, data |-> NoData, request_id |-> NullId]
UpstreamTimeout == [kind |-> "timeout", status |-> NULL, data |-> NoData, request_id |-> NullId]
UpstreamNetworkError ==
    [kind |-> "network", status |-> NULL, data |-> NoData, request_id |-> NullId]
UpstreamResponse(status, data) ==
    [kind |-> "response", status |-> status, data |-> data, request_id |-> "req_openai"]

NoKey == [id |-> NULL, organization_id |-> NullId, project_id |-> NullId, is_active |-> FALSE]
NoResp == [status |-> NULL, body |-> NoData, trace |-> NullId]

\* A request that has not arrived yet.
IdleReq ==
    [pc |-> "idle", proxyKey |-> NullId, model |-> NullId, requestId |-> NullId,
     headers |-> NoHeaders, forwardHeaders |-> NoForwardHeaders,
     key |-> NoKey, authFailure |-> "none", orgRow |-> "none", openaiKey |-> NoString, upstream |-> NoUpstream,
     logged |-> "none", resp |-> NoResp]

\* res.status(status).json({error: {code}}) of the route, without trace header.
ErrorBody(code, message) == [Data(code, NullId, NoUsageObject) EXCEPT !.message = message]
respondError(q, status, code, message) ==
    [q EXCEPT !.pc = "done",
              !.resp = [status |-> status, body |-> ErrorBody(code, message),
                        trace |-> NullId]]

\* The catch of the route: the error thrown by proxyChatCompletion becomes a
\* status and an error code.
routeCatch(q, error) ==
    IF error.code = "INVALID_MODEL" \/ includes(error.message, <<"Unsupported", "model">>)
    THEN respondError(q, 400, "invalid_model", error.message)
    ELSE IF includes(error.message, <<"proxy", "key">>)
    THEN respondError(q, 401, "invalid_api_key", MsgInvalidKey)
    ELSE IF includes(error.message, <<"OpenAI", "API", "key", "not", "configured">>)
    THEN respondError(q, 500, "configuration_error", MsgNotConfigured)
    ELSE IF includes(error.message, <<"decrypt">>)
    THEN respondError(q, 500, "decryption_error", MsgDecryptKey)
    ELSE IF includes(error.message, <<"timeout">>)
    THEN respondError(q, 504, "timeout", MsgTimeout)
    ELSE respondError(q, 500, "internal_error", MsgInternal)

\* The catch of proxyChatCompletion, for an error without a response: the
\* error it throws to the route.
proxyCatch(error) ==
    IF error.code = "INVALID_MODEL" THEN error
    ELSE IF error.code = "ECONNABORTED" THEN Error(MsgTimeout, "none")
    ELSE IF includes(error.message, <<"proxy", "key">>) THEN error
    ELSE IF includes(error.message, <<"decrypt">>) THEN Error(MsgDecryptKey, "none")
    ELSE Error(MsgProxyFailed, "none")

\* An error thrown inside the try of proxyChatCompletion, up to the response.
proxyThrow(q, error) == routeCatch(q, proxyCatch(error))

\* The result proxyChatCompletion returns once the upstream response is in.
proxyResult(q) ==
    [success |-> TRUE,
     response |-> q.upstream.data,
     statusCode |-> q.upstream.status,
     metadata |-> [spendai_request_id |-> q.requestId,
                   organization_id |-> q.key.organization_id,
                   project_id |-> q.key.project_id,
                   proxy_key_id |-> q.key.id,
                   openai_request_id |-> q.upstream.request_id]]

\* A route that puts the upstream's request id in the header.
traceHeader_OpenAI(result) == result.metadata.openai_request_id

\* res.setHeader('x-spendai-request-id', ...)
traceHeader(result) == result.metadata.spendai_request_id

\* A route that refuses the answer once the organization's month-to-date
\* spend has reached its budget.
proxyReturn_BudgetGate(q) ==
    LET result == proxyResult(q)
        budget == orgBudget[q.key.organization_id]
        actual == calculateMTDSpend(usage_logs, q.key.organization_id, NullId,
                                    startOfMonth(now))
    IN IF budgetSet(budget) /\ crossed(actual, budget, 100)
       THEN respondError(q, 429, "budget_exceeded", <<"Budget", "exceeded">>)
       ELSE [q EXCEPT !.pc = "done",
                      !.resp = [status |-> result.statusCode, body |-> result.response,
                                trace |-> traceHeader(result)]]

\* The route's answer to a returned result: status and body passed through.
proxyReturn(q) ==
    LET result == proxyResult(q)
    IN [q EXCEPT !.pc = "done",
                 !.resp = [status |-> result.statusCode, body |-> result.response,
                           trace |-> traceHeader(result)]]

\* crypto.randomUUID() of request w.
requestId(w) == "spendai-" \o ToString(w)

\* openaiResponse.status === 200
isSuccessStatus(status) == status = 200

\* What extractUsageFromResponse returns when it returns null.
NullUsage ==
    [ok |-> FALSE, model |-> NullId, prompt_tokens |-> Undefined,
     completion_tokens |-> Undefined, total_tokens |-> Undefined]

\* An extraction that takes a missing usage object for zero tokens.
extractUsageFromResponse_NoUsageGuard(data) ==
    IF data.kind = "none" \/ data.model = NullId THEN NullUsage
    ELSE IF ~data.usage.present
    THEN [ok |-> TRUE, model |-> data.model, prompt_tokens |-> Num(0),
          completion_tokens |-> Num(0), total_tokens |-> Num(0)]
    ELSE [ok |-> TRUE, model |-> data.model,
          prompt_tokens |-> data.usage.prompt_tokens,
          completion_tokens |-> data.usage.completion_tokens,
          total_tokens |-> data.usage.total_tokens]

\* extractUsageFromResponse: null without a body, a model, a usage object or
\* numeric prompt and completion token counts.
extractUsageFromResponse(data) ==
    IF data.kind = "none" \/ data.model = NullId THEN NullUsage
    ELSE IF ~data.usage.present THEN NullUsage
    ELSE IF \/ data.usage.prompt_tokens.type # "number"
            \/ data.usage.completion_tokens.type # "number"
    THEN NullUsage
    ELSE [ok |-> TRUE, model |-> data.model,
          prompt_tokens |-> data.usage.prompt_tokens,
          completion_tokens |-> data.usage.completion_tokens,
          total_tokens |-> data.usage.total_tokens]

\* Parameters that take the project from a header of the client when it
\* sends one.
logParams_ClientScope(q, usage) ==
    [request_id |-> q.requestId,
     organization_id |-> q.key.organization_id,
     project_id |-> IF q.headers["openai-organization"] # ""
                    THEN q.headers["openai-organization"] ELSE q.key.project_id,
     proxy_key_id |-> q.key.id,
     model |-> usage.model,
     prompt_tokens |-> usage.prompt_tokens,
     completion_tokens |-> usage.completion_tokens,
     total_tokens |-> usage.total_tokens]

\* The parameters logFromOpenAIResponse passes to logUsage: the identifiers
\* of the request and the model and token counts of the response.
logParams(q, usage) ==
    [request_id |-> q.requestId,
     organization_id |-> q.key.organization_id,
     project_id |-> q.key.project_id,
     proxy_key_id |-> q.key.id,
     model |-> usage.model,
     prompt_tokens |-> usage.prompt_tokens,
     completion_tokens |-> usage.completion_tokens,
     total_tokens |-> usage.total_tokens]

\* A handler that lets the logging error reach its outer catch.
onLoggingError_Rethrow(q, loggingError) == proxyThrow(q, loggingError)

\* catch (loggingError): logged, and the response is returned as it stands.
onLoggingError(q, loggingError) == proxyReturn(q)

\* A logUsage that awaits checkBudgets before it returns.
logUsageSettled_AwaitBudget(e) == e.pc \in {"failed", "done"}

\* The promise of logUsage is settled once the insert has returned:
\* checkBudgets is started and not awaited.
logUsageSettled(e) == e.pc # "idle"

\* The route up to the first await of proxyChatCompletion: the bearer token
\* and the body are checked, a request id is generated, verifyProxyKey called.
Receive(r, requestHeaders, body) ==
    /\ server.state = "listening"
    /\ req[r].pc = "idle"
    /\ LET q == [req[r] EXCEPT !.model = body.model]
           authHeader == requestHeaders["authorization"]
           proxyKey == extractBearerToken(authHeader)
           validation == validateChatCompletionRequest(body)
       IN req' = [req EXCEPT ![r] =
                    IF proxyKey = NullId \/ proxyKey = ""
                    THEN respondError(q, 401, "invalid_api_key", MsgMissingAuth)
                    ELSE IF ~validation.valid
                    THEN respondError(q, 400, "invalid_request", validation.error)
                    ELSE [q EXCEPT !.pc = "verify", !.proxyKey = proxyKey,
                                   !.headers = requestHeaders,
                                   !.requestId = requestId(r)]]
    /\ UNCHANGED orgKey

\* A proxyChatCompletion that checks the model against the allowlist before
\* it looks at the result of verifyProxyKey.
Verify_ModelFirst(r, dbError) ==
    /\ req[r].pc = "verify"
    /\ LET q == [req[r] EXCEPT
                    !.authFailure = verificationFailure(req[r].proxyKey, proxy_keys, dbError)]
           keyValidation == verifyProxyKey(q.proxyKey, proxy_keys, dbError)
           modelValidation == validateModel(q.model)
       IN req' = [req EXCEPT ![r] =
                    IF ~modelValidation.valid
                    THEN proxyThrow(q, Error(modelValidation.error, "INVALID_MODEL"))
                    ELSE IF ~keyValidation.success
                    THEN proxyThrow(q, Error(keyValidation.error, "none"))
                    ELSE [q EXCEPT !.pc = "secret", !.key = keyValidation.key]]
    /\ UNCHANGED orgKey

\* verifyProxyKey returns; the model is checked against the allowlist and
\* getOrganizationOpenAIKey is called.
Verify(r, dbError) ==
    /\ req[r].pc = "verify"
    /\ LET q == [req[r] EXCEPT
                    !.authFailure = verificationFailure(req[r].proxyKey, proxy_keys, dbError)]
           keyValidation == verifyProxyKey(q.proxyKey, proxy_keys, dbError)
           modelValidation == validateModel(q.model)
       IN req' = [req EXCEPT ![r] =
                    IF ~keyValidation.success
                    THEN proxyThrow(q, Error(keyValidation.error, "none"))
                    ELSE IF ~modelValidation.valid
                    THEN proxyThrow([q EXCEPT !.key = keyValidation.key],
                                    Error(modelValidation.error, "INVALID_MODEL"))
                    ELSE [q EXCEPT !.pc = "secret", !.key = keyValidation.key]]
    /\ UNCHANGED orgKey

\* The read of organizations.openai_api_key returns; the stored value is
\* decrypted when isEncrypted recognises its format, used as it is otherwise,
\* and the request is sent upstream with the result as its credential.
ResolveSecret(r, dbError) ==
    /\ req[r].pc = "secret"
    /\ LET q == [req[r] EXCEPT !.orgRow = IF dbError THEN "error" ELSE "found"]
           stored == orgKey[q.key.organization_id]
           decrypted == decrypt(stored, server.OPENAI_KEY_ENCRYPTION_SECRET)
       IN req' = [req EXCEPT ![r] =
                    IF dbError THEN proxyThrow(q, Error(MsgFetchFailed, "none"))
                    ELSE IF stored = NoString
                    THEN proxyThrow(q, Error(MsgNotConfigured, "none"))
                    ELSE IF isEncrypted(stored)
                    THEN IF decrypted.ok
                         THEN [q EXCEPT !.pc = "upstream", !.openaiKey = decrypted.plaintext,
                                        !.forwardHeaders =
                                            buildForwardHeaders(q.headers, decrypted.plaintext)]
                         ELSE proxyThrow(q, Error(MsgDecryptApiKey, "none"))
                    ELSE [q EXCEPT !.pc = "upstream", !.openaiKey = stored,
                                   !.forwardHeaders = buildForwardHeaders(q.headers, stored)]]
    /\ UNCHANGED orgKey

\* axios.post settles.  A 200 response is handed to logFromOpenAIResponse,
\* which returns at once without telemetry or on a validation error and
\* otherwise waits for the insert; any other response is returned as it is.
Upstream(r, outcome) ==
    /\ req[r].pc = "upstream"
    /\ LET q == [req[r] EXCEPT !.upstream = outcome]
           usage == extractUsageFromResponse(outcome.data)
           valid == logUsageValidation(logParams(q, usage))
       IN req' = [req EXCEPT ![r] =
                    IF outcome.kind = "timeout"
                    THEN proxyThrow(q, Error(MsgAxiosTimeout, "ECONNABORTED"))
                    ELSE IF outcome.kind = "network"
                    THEN proxyThrow(q, Error(MsgNetwork, "ENOTFOUND"))
                    ELSE IF ~isSuccessStatus(outcome.status)
                    THEN proxyReturn(q)
                    ELSE IF ~usage.ok
                    THEN proxyReturn([q EXCEPT !.logged = "skipped"])
                    ELSE IF valid # "ok"
                    THEN onLoggingError([q EXCEPT !.logged = "invalid"],
                                        Error(<<valid>>, "none"))
                    ELSE [q EXCEPT !.pc = "insert"]]
    /\ UNCHANGED orgKey

\* The insert of logUsage returns, and with it logFromOpenAIResponse and
\* proxyChatCompletion: the response is sent.
InsertUsage(r, insertError) ==
    /\ req[r].pc = "insert"
    /\ LET q == req[r]
           params == logParams(q, extractUsageFromResponse(q.upstream.data))
       IN /\ LogUsage(r, params, insertError)
          /\ req' = [req EXCEPT ![r] =
                       IF insertFails(params, insertError)
                       THEN onLoggingError([q EXCEPT !.logged = "error"],
                                           Error(MsgLogFailed, "none"))
                       ELSE IF logUsageSettled(ev'[r])
                       THEN proxyReturn([q EXCEPT !.logged = "ok"])
                       ELSE q]
    /\ UNCHANGED orgKey

IdleEval == [pc |-> "idle"]

InitLedger ==
    /\ usage_logs = {}
    /\ alerts = {}
    /\ orgBudget = [o \in Orgs |-> NULL]
    /\ projBudget = [p \in Projects |-> NULL]
    /\ projects = Projects
    /\ ev = [w \in Reqs |-> IdleEval]

\* No upstream secret configured, no request received.
InitProxy ==
    /\ orgKey = [o \in Orgs |-> NoString]
    /\ req = [r \in Reqs |-> IdleReq]
    /\ InitEnv

InitKeys ==
    /\ now = 0
    /\ proxy_keys = [k \in KeyIds |-> NoRow]
    /\ issued = [k \in KeyIds |-> NoSecret]
    /\ ret = NoRet
    /\ InitLedger
    /\ InitProxy

KeysCreate ==
    /\ \E o \in Orgs, p \in Projects, s \in Secrets : CreateProxyKey(o, p, s)
    /\ UNCHANGED <<now, ledgerVars, proxyVars, envVars>>
KeysRevoke ==
    /\ \E k \in KeyIds, o \in Orgs : RevokeProxyKey(k, o)
    /\ UNCHANGED <<now, ledgerVars, proxyVars, envVars>>
KeysVerify ==
    /\ \E s \in Secrets, e \in BOOLEAN : VerifyProxyKey(s, e)
    /\ UNCHANGED <<now, ledgerVars, proxyVars, envVars>>
KeysTick ==
    /\ Tick
    /\ UNCHANGED <<keyVars, ledgerVars, proxyVars, envVars>>

NextKeys == KeysCreate \/ KeysRevoke \/ KeysVerify \/ KeysTick

SpecKeys == InitKeys /\ [][NextKeys]_vars

(***************************************************************************)
(* Usage writes and budget evaluation                                      *)
(***************************************************************************)

\* Token counts of the usage writes of this specification.
WriteTokens == {100, 400}

\* The parameters of a usage write of writer w.
writeParams(w, projectId, promptTokens) ==
    [request_id |-> requestId(w), organization_id |-> ProjectOrg(projectId),
     project_id |-> projectId, proxy_key_id |-> 1, model |-> "gpt-4-turbo",
     prompt_tokens |-> Num(promptTokens), completion_tokens |-> Num(0),
     total_tokens |-> Num(promptTokens)]

\* A usage row written before the writers start.
priorRow ==
    usageRow([request_id |-> "spendai-0", organization_id |-> "o1", project_id |-> "p1",
              proxy_key_id |-> 1, model |-> "gpt-4-turbo",
              prompt_tokens |-> Num(400), completion_tokens |-> Num(0)], 1, 0)

InitBudget ==
    /\ now = 0
    /\ proxy_keys = [k \in KeyIds |-> NoRow]
    /\ issued = [k \in KeyIds |-> NoSecret]
    /\ ret = NoRet
    /\ usage_logs = {priorRow}
    /\ alerts = {}
    /\ orgBudget \in [Orgs -> {NULL, 1}]
    /\ projBudget \in {[p \in Projects |-> IF p = "p1" THEN 1 ELSE b] : b \in {NULL, 0}}
    /\ projects = Projects
    /\ ev = [w \in Reqs |-> IdleEval]
    /\ InitProxy

BudgetLogUsage ==
    /\ \E w \in Reqs, p \in Projects, n \in WriteTokens, e \in BOOLEAN :
          LogUsage(w, writeParams(w, p, n), e)
    /\ UNCHANGED <<now, keyVars, proxyVars, envVars>>
BudgetBudgetRead ==
    /\ \E w \in Reqs, e \in BOOLEAN : BudgetRead(w, e)
    /\ UNCHANGED <<now, keyVars, proxyVars, envVars>>
BudgetSpendRead ==
    /\ \E w \in Reqs, e \in BOOLEAN : SpendRead(w, e)
    /\ UNCHANGED <<now, keyVars, proxyVars, envVars>>
BudgetAlertInsert ==
    /\ \E w \in Reqs, e \in BOOLEAN : AlertInsert(w, e)
    /\ UNCHANGED <<now, keyVars, proxyVars, envVars>>
BudgetTick ==
    /\ Tick
    /\ UNCHANGED <<keyVars, ledgerVars, proxyVars, envVars>>

NextBudget ==
    BudgetLogUsage \/ BudgetBudgetRead \/ BudgetSpendRead \/ BudgetAlertInsert \/ BudgetTick

SpecBudget == InitBudget /\ [][NextBudget]_vars

\* Usage writes that do not overlap: a write starts only when the budget
\* evaluation of every earlier write has finished.
Quiescent == \A w \in Reqs : ev[w].pc \in {"idle", "done", "failed"}

SeqLogUsage == Quiescent /\ BudgetLogUsage

NextBudgetSeq ==
    SeqLogUsage \/ BudgetBudgetRead \/ BudgetSpendRead \/ BudgetAlertInsert \/ BudgetTick

SpecBudgetSeq == InitBudget /\ [][NextBudgetSeq]_vars

(***************************************************************************)
(* Usage writes whose budget evaluation is eventually run                  *)
(***************************************************************************)

\* The organization and project p1 have a ceiling of one cent.
InitLive ==
    /\ InitBudget
    /\ orgBudget = [o \in Orgs |-> 1]
    /\ projBudget = [p \in Projects |-> IF p = "p1" THEN 1 ELSE NULL]

\* A step of the checkBudgets call started by write w: one of its awaited
\* datastore calls returns.
Evaluate(w) ==
    /\ \E e \in BOOLEAN : BudgetRead(w, e) \/ SpendRead(w, e) \/ AlertInsert(w, e)
    /\ UNCHANGED <<now, keyVars, proxyVars, envVars>>

\* Usage writes of 0.1 cents into project p1.
LiveLogUsage ==
    /\ \E w \in Reqs, e \in BOOLEAN : LogUsage(w, writeParams(w, "p1", 100), e)
    /\ UNCHANGED <<now, keyVars, proxyVars, envVars>>

NextLive ==
    LiveLogUsage \/ BudgetBudgetRead \/ BudgetSpendRead \/ BudgetAlertInsert \/ BudgetTick

\* The event loop runs every pending continuation: a call of checkBudgets
\* that can take a step eventually takes one.
SpecBudgetLive ==
    InitLive /\ [][NextLive]_vars /\ \A w \in Reqs : WF_vars(Evaluate(w))

(***************************************************************************)
(* Requests through the proxy                                              *)
(***************************************************************************)

\* The Authorization headers and bodies of the requests.
AuthHeaders ==
    {NoHeader, AuthHeader("Basic", "s1"), AuthHeader("Bearer", "s1"),
     AuthHeader("Bearer", "s2")}
RequestHeaders == {Headers(a, "", "", "") : a \in AuthHeaders}
Bodies ==
    {Body("gpt-4-turbo", "some"), Body("gpt-5", "some"), Body(NullId, "some"),
     Body("gpt-4-turbo", "empty")}

\* The bodies of upstream 200 responses: full telemetry; a model the price
\* table does not list; no usage object; no model; a token count that is not
\* a number; a negative token count.
SuccessData ==
    {Data("completion", "gpt-4-turbo", Usage(Num(600), Num(0), Num(600))),
     Data("completion", "gpt-4-turbo-2024-04-09", Usage(Num(600), Num(0), Num(600))),
     Data("completion", "gpt-4-turbo", NoUsageObject),
     Data("completion", NullId, Usage(Num(600), Num(0), Num(600))),
     Data("completion", "gpt-4-turbo", Usage(Undefined, Num(0), Undefined)),
     Data("completion", "gpt-4-turbo", Usage(Num(0 - 5), Num(0), Num(0 - 5)))}
UpstreamOutcomes ==
    {UpstreamTimeout, UpstreamNetworkError,
     UpstreamResponse(429, Data("error", NullId, NoUsageObject))}
    \cup {UpstreamResponse(200, d) : d \in SuccessData}

\* The stored upstream secret: not configured; the bundle; the plaintext of
\* a row not migrated yet; the bundle with another tag; with a ciphertext
\* that is not hex; with its ciphertext part cut off.
StoredValues ==
    {NoString, encrypt(PlainKey), PlainKey,
     Str(<<"iv1", "tag2", "ct1">>), Str(<<"iv1", "tag1", "ct1zz">>), Str(<<"iv1", "tag1">>)}

\* One active credential, one revoked credential, an organization budget of
\* one cent, and a stored upstream secret.
InitProxyKeys ==
    /\ proxy_keys = [k \in KeyIds |->
                        IF k = 1 THEN newKeyRow("o1", "p1", "s1")
                        ELSE IF k = 2 THEN revokeUpdate(newKeyRow("o1", "p2", "s2"), 0)
                        ELSE NoRow]
    /\ issued = [k \in KeyIds |-> IF k = 1 THEN "s1" ELSE IF k = 2 THEN "s2" ELSE NoSecret]
    /\ ret = NoRet

InitRequests ==
    /\ now = 0
    /\ InitProxyKeys
    /\ usage_logs = {}
    /\ alerts = {}
    /\ orgBudget = [o \in Orgs |-> 1]
    /\ projBudget = [p \in Projects |-> NULL]
    /\ projects = Projects
    /\ ev = [w \in Reqs |-> IdleEval]
    /\ orgKey \in [Orgs -> StoredValues]
    /\ req = [r \in Reqs |-> IdleReq]
    /\ InitEnv

ProxyReceive ==
    /\ \E r \in Reqs, h \in RequestHeaders, b \in Bodies : Receive(r, h, b)
    /\ UNCHANGED <<now, keyVars, ledgerVars, envVars>>
ProxyVerify ==
    /\ \E r \in Reqs, e \in BOOLEAN : Verify(r, e)
    /\ UNCHANGED <<now, keyVars, ledgerVars, envVars>>
ProxyResolveSecret ==
    /\ \E r \in Reqs, e \in BOOLEAN : ResolveSecret(r, e)
    /\ UNCHANGED <<now, keyVars, ledgerVars, envVars>>
ProxyUpstream ==
    /\ \E r \in Reqs, o \in UpstreamOutcomes : Upstream(r, o)
    /\ UNCHANGED <<now, keyVars, ledgerVars, envVars>>
ProxyInsertUsage ==
    /\ \E r \in Reqs, e \in BOOLEAN : InsertUsage(r, e)
    /\ UNCHANGED <<now, keyVars, envVars>>

NextProxy ==
    \/ ProxyReceive \/ ProxyVerify \/ ProxyResolveSecret \/ ProxyUpstream
    \/ ProxyInsertUsage
    \/ BudgetBudgetRead \/ BudgetSpendRead \/ BudgetAlertInsert
    \/ KeysTick

SpecProxy == InitRequests /\ [][NextProxy]_vars

(***************************************************************************)
(* Costs of token counts                                                   *)
(***************************************************************************)

PricingCalculateCost ==
    /\ \E m \in DOMAIN getPricingTable, p \in 0..MaxTokens, c \in 0..MaxTokens :
          CalculateCost(m, p, c)
    /\ UNCHANGED <<now, ledgerVars, proxyVars, envVars>>

NextPricing == PricingCalculateCost

SpecPricing == InitKeys /\ [][NextPricing]_vars

(***************************************************************************)
(* Requests with inbound headers                                           *)
(***************************************************************************)

\* Two active credentials of one organization, and an upstream secret stored
\* as a bundle or as legacy plaintext.
InitHeaders ==
    /\ now = 0
    /\ proxy_keys = [k \in KeyIds |->
                       IF k = 1 THEN newKeyRow("o1", "p1", "s1")
                       ELSE IF k = 2 THEN newKeyRow("o1", "p2", "s2")
                       ELSE NoRow]
    /\ issued = [k \in KeyIds |-> IF k = 1 THEN "s1" ELSE IF k = 2 THEN "s2" ELSE NoSecret]
    /\ ret = NoRet
    /\ InitLedger
    /\ orgKey \in [Orgs -> {encrypt(PlainKey), PlainKey}]
    /\ req = [r \in Reqs |-> IdleReq]
    /\ InitEnv

\* The inbound headers of the requests: either credential, an accept and a
\* user-agent that are set or not, and an openai-organization header.
InboundHeaders ==
    {Headers(AuthHeader("Bearer", k), a, u, o) :
        k \in Secrets, a \in {"", "application/json", "text/event-stream"},
        u \in {"", "curl/8.4.0"}, o \in {"", "org-other"}}

HeadersReceive ==
    /\ \E r \in Reqs, h \in InboundHeaders : Receive(r, h, Body("gpt-4-turbo", "some"))
    /\ UNCHANGED <<now, keyVars, ledgerVars, envVars>>

NextHeaders == HeadersReceive \/ ProxyVerify \/ ProxyResolveSecret

SpecHeaders == InitHeaders /\ [][NextHeaders]_vars

(***************************************************************************)
(* Requests under different budgets and spends                             *)
(***************************************************************************)

\* The budgets are set or not, and the month has a usage row of 0.4 cents
\* already or none; the upstream secret is stored as a bundle.
InitGovern ==
    /\ now = 0
    /\ InitProxyKeys
    /\ usage_logs \in {{}, {priorRow}}
    /\ alerts = {}
    /\ orgBudget \in [Orgs -> {NULL, 1}]
    /\ projBudget \in [Projects -> {NULL, 1}]
    /\ projects = Projects
    /\ ev = [w \in Reqs |-> IdleEval]
    /\ orgKey = [o \in Orgs |-> encrypt(PlainKey)]
    /\ req = [r \in Reqs |-> IdleReq]
    /\ InitEnv

NextGovern ==
    \/ ProxyReceive \/ ProxyVerify \/ ProxyResolveSecret \/ ProxyUpstream
    \/ ProxyInsertUsage
    \/ BudgetBudgetRead \/ BudgetSpendRead \/ BudgetAlertInsert

SpecGovern == InitGovern /\ [][NextGovern]_vars

(***************************************************************************)
(* globalLimiter and proxyLimiter                                          *)
(***************************************************************************)

\* One more hit in a window.  Every count above max is refused alike, so the
\* count stops at max + 1.
hit(hits, max) == IF hits > max THEN hits ELSE hits + 1
exceeded(hits, max) == hits > max

\* A key generator that uses the client address for every request.
keyGenerator_ByAddress(authHeader) == "ip"

\* keyGenerator of proxyLimiter: the bearer token, or the client address.
keyGenerator(authHeader) ==
    IF authHeader # NoHeader /\ authHeader.scheme = "Bearer"
    THEN authHeader.credentials
    ELSE "ip"

\* The requests counted per window: up to two more than the limit for the
\* first credential, MaxOther for another one.
ArrivalCap(s) == IF s = "s1" THEN ProxyMax + 2 ELSE MaxOther

\* POST /v1/chat/completions arrives with a bearer token: globalLimiter
\* counts it and answers 429 above its max; otherwise proxyLimiter counts it
\* under its key and answers 429 above its max; otherwise the route runs.
ProxyRequest(authHeader) ==
    /\ server.state = "listening"
    /\ LET s == extractBearerToken(authHeader)
           key == keyGenerator(authHeader)
           g == hit(limiter.global, GlobalMax)
           byGlobal == exceeded(g, GlobalMax)
           p == IF byGlobal THEN limiter.proxy[key] ELSE hit(limiter.proxy[key], ProxyMax)
           outcome == IF byGlobal THEN "global_429"
                      ELSE IF exceeded(p, ProxyMax) THEN "proxy_429"
                      ELSE "handler"
           clean == ~limiter.blocked[s] /\ ~byGlobal
       IN /\ limiter.arrived[s] < ArrivalCap(s)
          /\ byGlobal => limiter.refused < MaxRefused
          /\ limiter' = [limiter EXCEPT
                            !.global = g,
                            !.proxy[key] = p,
                            !.arrived[s] = limiter.arrived[s] + 1,
                            !.blocked[s] = ~clean,
                            !.last = [bearer |-> s, index |-> limiter.arrived[s] + 1,
                                      hits |-> p, outcome |-> outcome, clean |-> clean],
                            !.refused = IF byGlobal THEN limiter.refused + 1
                                        ELSE limiter.refused]
    /\ UNCHANGED <<now, keyVars, ledgerVars, proxyVars, server>>

\* A request to another route: only globalLimiter counts it.
OtherRequest ==
    /\ server.state = "listening"
    /\ limiter.others < MaxOther
    /\ exceeded(hit(limiter.global, GlobalMax), GlobalMax) => limiter.refused < MaxRefused
    /\ limiter' = [limiter EXCEPT
                      !.global = hit(limiter.global, GlobalMax),
                      !.others = limiter.others + 1,
                      !.refused = IF exceeded(hit(limiter.global, GlobalMax), GlobalMax)
                                  THEN limiter.refused + 1 ELSE limiter.refused]
    /\ UNCHANGED <<now, keyVars, ledgerVars, proxyVars, server>>

\* windowMs of proxyLimiter has passed for a key: its hits are forgotten,
\* and with them what is remembered of the requests of its window.
ProxyWindowReset(key) ==
    /\ limiter.proxy[key] > 0
    /\ limiter.resets < MaxResets
    /\ limiter' = [limiter EXCEPT
                      !.proxy[key] = 0,
                      !.last = IF limiter.last.bearer # "none"
                                  /\ keyGenerator(AuthHeader("Bearer", limiter.last.bearer)) = key
                               THEN NoLast ELSE limiter.last,
                      !.arrived = [s \in Secrets |->
                                      IF keyGenerator(AuthHeader("Bearer", s)) = key
                                      THEN 0 ELSE limiter.arrived[s]],
                      !.blocked = [s \in Secrets |->
                                      IF keyGenerator(AuthHeader("Bearer", s)) = key
                                      THEN FALSE ELSE limiter.blocked[s]],
                      !.resets = limiter.resets + 1]
    /\ UNCHANGED <<now, keyVars, ledgerVars, proxyVars, server>>

\* windowMs of globalLimiter has passed: the address's hits are forgotten.
GlobalWindowReset ==
    /\ limiter.global > 0
    /\ limiter.resets < MaxResets
    /\ limiter' = [limiter EXCEPT !.global = 0, !.resets = limiter.resets + 1]
    /\ UNCHANGED <<now, keyVars, ledgerVars, proxyVars, server>>

\* A process that has served no request yet, or GlobalMax - 1 requests in
\* the current window of globalLimiter.
InitRate ==
    /\ now = 0
    /\ proxy_keys = [k \in KeyIds |-> NoRow]
    /\ issued = [k \in KeyIds |-> NoSecret]
    /\ ret = NoRet
    /\ InitLedger
    /\ orgKey = [o \in Orgs |-> NoString]
    /\ req = [r \in Reqs |-> IdleReq]
    /\ server = ListeningServer
    /\ limiter \in {[NoHits EXCEPT !.global = g] : g \in {0, GlobalMax - 1}}

RateProxyRequest == \E s \in Secrets : ProxyRequest(AuthHeader("Bearer", s))
RateProxyWindowReset == \E k \in LimiterKeys : ProxyWindowReset(k)

NextRate ==
    \/ RateProxyRequest \/ OtherRequest
    \/ RateProxyWindowReset \/ GlobalWindowReset

SpecRate == InitRate /\ [][NextRate]_vars

(***************************************************************************)
(* Requests while credentials are created and revoked                      *)
(***************************************************************************)

NextAuth ==
    \/ KeysCreate \/ KeysRevoke
    \/ ProxyReceive \/ ProxyVerify \/ ProxyResolveSecret

SpecAuth == InitKeys /\ [][NextAuth]_vars

(***************************************************************************)
(* Startup: env.validate() before the server listens                       *)
(***************************************************************************)

\* The environments a process can be started with: each variable absent or
\* set, the master key also set to fewer than 64 characters or to 64
\* characters that are not all hex.
StartingServers ==
    [state : {"starting"},
     SUPABASE_URL : {"absent", "set"},
     SUPABASE_ANON_KEY : {"absent", "set"},
     SUPABASE_SERVICE_KEY : {"absent", "set"},
     OPENAI_KEY_ENCRYPTION_SECRET : {"absent", "short", "nonhex64", "hex64"},
     PROXY_KEY_SECRET : {"absent", "set"}]

InitStartup ==
    /\ now = 0
    /\ InitProxyKeys
    /\ usage_logs = {}
    /\ alerts = {}
    /\ orgBudget = [o \in Orgs |-> 1]
    /\ projBudget = [p \in Projects |-> NULL]
    /\ projects = Projects
    /\ ev = [w \in Reqs |-> IdleEval]
    /\ orgKey \in [Orgs -> {encrypt(PlainKey), PlainKey}]
    /\ req = [r \in Reqs |-> IdleReq]
    /\ server \in StartingServers
    /\ limiter = NoHits

\* server.js: env.validate() exits the process when a required variable is
\* missing; otherwise the routes are mounted and the server listens.
Startup ==
    /\ server.state = "starting"
    /\ server' = [server EXCEPT !.state = IF validate(server) THEN "listening" ELSE "exited"]
    /\ UNCHANGED <<now, keyVars, ledgerVars, proxyVars, limiter>>

NextStartup ==
    \/ Startup
    \/ ProxyReceive \/ ProxyVerify \/ ProxyResolveSecret \/ ProxyUpstream
    \/ ProxyInsertUsage
    \/ BudgetBudgetRead \/ BudgetSpendRead \/ BudgetAlertInsert

SpecStartup == InitStartup /\ [][NextStartup]_vars

(***************************************************************************)
(* Requests while credentials are revoked and projects deleted             *)
(***************************************************************************)

\* Two active credentials of two projects of one organization, budgets of
\* one cent, and the upstream secret stored as a bundle.
InitAdmin ==
    /\ now = 0
    /\ proxy_keys = [k \in KeyIds |->
                       IF k = 1 THEN newKeyRow("o1", "p1", "s1")
                       ELSE IF k = 2 THEN newKeyRow("o1", "p2", "s2")
                       ELSE NoRow]
    /\ issued = [k \in KeyIds |-> IF k = 1 THEN "s1" ELSE IF k = 2 THEN "s2" ELSE NoSecret]
    /\ ret = NoRet
    /\ usage_logs = {}
    /\ alerts = {}
    /\ orgBudget = [o \in Orgs |-> 1]
    /\ projBudget = [p \in Projects |-> 1]
    /\ projects = Projects
    /\ ev = [w \in Reqs |-> IdleEval]
    /\ orgKey = [o \in Orgs |-> encrypt(PlainKey)]
    /\ req = [r \in Reqs |-> IdleReq]
    /\ InitEnv

\* Well-formed requests with either credential; the client may name another
\* project in a header of its own.
AdminHeaders ==
    {Headers(AuthHeader("Bearer", k), "", "", o) : k \in Secrets, o \in {"", "p2"}}
AdminOutcomes ==
    {UpstreamResponse(429, Data("error", NullId, NoUsageObject)),
     UpstreamResponse(200, Data("completion", "gpt-4-turbo", Usage(Num(600), Num(0), Num(600))))}

AdminReceive ==
    /\ \E r \in Reqs, h \in AdminHeaders : Receive(r, h, Body("gpt-4-turbo", "some"))
    /\ UNCHANGED <<now, keyVars, ledgerVars, envVars>>
AdminUpstream ==
    /\ \E r \in Reqs, o \in AdminOutcomes : Upstream(r, o)
    /\ UNCHANGED <<now, keyVars, ledgerVars, envVars>>
ProjectsDelete == \E p \in Projects, o \in Orgs, e \in BOOLEAN : DeleteProject(p, o, e)

NextAdmin ==
    \/ AdminReceive \/ ProxyVerify \/ ProxyResolveSecret \/ AdminUpstream
    \/ ProxyInsertUsage
    \/ BudgetBudgetRead \/ BudgetSpendRead \/ BudgetAlertInsert
    \/ KeysRevoke \/ ProjectsDelete

SpecAdmin == InitAdmin /\ [][NextAdmin]_vars

(***************************************************************************)
(* Credential store: claims                                                *)
(***************************************************************************)

Created(k) == proxy_keys[k].present

\* A step that is one call of verifyProxyKey whose lookup returned.
VerifyReturned == \E s \in Secrets : VerifyProxyKey(s, FALSE)

\* C5: for every credential c created by createProxyKey, a verification of
\* c's secret succeeds with c's organization and project exactly while c is
\* active (so it fails once c is revoked), and no step sets a credential's
\* active flag back to true.
C5_VerifyWhileActive ==
    /\ [][VerifyReturned =>
            \A k \in KeyIds :
                (Created(k) /\ ret'.arg = issued[k]) =>
                    /\ ret'.result.success <=> proxy_keys[k].is_active
                    /\ ret'.result.success =>
                          /\ ret'.result.key.id = k
                          /\ ret'.result.key.organization_id = proxy_keys[k].organization_id
                          /\ ret'.result.key.project_id = proxy_keys[k].project_id]_vars
    /\ [][\A k \in KeyIds :
            (Created(k) /\ ~proxy_keys[k].is_active) =>
                (Created(k)' /\ ~proxy_keys'[k].is_active)]_vars

\* C5 witness: a verification made after the revocation of the credential
\* whose secret it presents has failed.
C5_Witness ==
    /\ ret.op = "verify"
    /\ ~ret.dbError
    /\ ~ret.result.success
    /\ \E k \in KeyIds :
          /\ Created(k)
          /\ issued[k] = ret.arg
          /\ proxy_keys[k].revoked_at # NULL
          /\ proxy_keys[k].revoked_at < ret.at

\* C6 (as claimed): revoking an already revoked credential returns success
\* and leaves the stored credential, revoked_at included, exactly as it was.
C6_RevokeRevokedIsNoOp ==
    [][\A k \in KeyIds, o \in Orgs :
          (RevokeProxyKey(k, o) /\ Created(k) /\ ~proxy_keys[k].is_active
              /\ proxy_keys[k].organization_id = o) =>
                 (ret'.success /\ proxy_keys'[k] = proxy_keys[k])]_vars

\* C7: in every reachable state revoked_at is non-null exactly for the
\* credentials that are not active, and the active flag of a credential
\* only ever changes from true to false.
C7_RevokedAtIffInactive ==
    /\ [](\A k \in KeyIds :
            Created(k) => ((proxy_keys[k].revoked_at # NULL) <=> ~proxy_keys[k].is_active))
    /\ [][\A k \in KeyIds :
            (Created(k) /\ Created(k)' /\ proxy_keys'[k].is_active # proxy_keys[k].is_active) =>
                (proxy_keys[k].is_active /\ ~proxy_keys'[k].is_active)]_vars

\* C7 witness: a revoked credential next to an active one.
C7_Witness ==
    \E k, j \in KeyIds :
        /\ Created(k) /\ ~proxy_keys[k].is_active /\ proxy_keys[k].revoked_at # NULL
        /\ Created(j) /\ proxy_keys[j].is_active /\ proxy_keys[j].revoked_at = NULL

(***************************************************************************)
(* Alerts and budget evaluation: claims                                    *)
(***************************************************************************)

\* The scope of an alert row, of an evaluation in progress, of a usage row.
Scopes == {<<"organization", o>> : o \in Orgs} \cup {<<"project", p>> : p \in Projects}
AlertScope(a) ==
    IF a.project_id = NullId THEN <<"organization", a.organization_id>>
                             ELSE <<"project", a.project_id>>
EvalScope(e) ==
    IF e.scope = "organization" THEN <<"organization", e.organization_id>>
                                ELSE <<"project", e.project_id>>
InScope(r, sc) ==
    IF sc[1] = "organization" THEN r.organization_id = sc[2] ELSE r.project_id = sc[2]
Ceiling(sc) == IF sc[1] = "organization" THEN orgBudget[sc[2]] ELSE projBudget[sc[2]]

AlertsFor(sc, t, m) ==
    {a \in alerts : AlertScope(a) = sc /\ a.threshold_percent = t /\ a.month_year = m}

\* The result recordAlert gave to the evaluation w for the scope it was in.
AlertResult(before, after) ==
    IF before.scope = "organization" THEN after.orgAlert ELSE after.projAlert

\* An insert of evaluation w that would create a second row for its key.
SecondRow(w) ==
    /\ ev[w].pc = "alert"
    /\ AlertsFor(EvalScope(ev[w]), ev[w].threshold, ev[w].month_year) # {}

\* C2: in every reachable state at most one Alert row exists for each
\* (scope, threshold, period); an insert that would create a second row is
\* rejected by the store and reported by recordAlert as already_sent.
C2_OneAlertPerKey ==
    /\ [](\A sc \in Scopes, t \in {50, 75, 90, 100}, m \in 0..monthYear(MaxTime) :
             Cardinality(AlertsFor(sc, t, m)) <= 1)
    /\ [][\A w \in Reqs :
            (SecondRow(w) /\ AlertInsert(w, FALSE)) =>
                (alerts' = alerts /\ AlertResult(ev[w], ev'[w]) = "already_sent")]_vars

\* C2 witness: one evaluation was told already_sent for both of its scopes.
C2_Witness ==
    \E w \in Reqs :
        /\ ev[w].pc = "done"
        /\ ev[w].orgAlert = "already_sent"
        /\ ev[w].projAlert = "already_sent"
        /\ Cardinality(alerts) = 2

\* The usage rows of the concurrent writers, and the spend before them.
WriterRows == {r \in usage_logs : r.request_id # priorRow.request_id}
BaseSpend(sc) == sumCost({r \in usage_logs \ WriterRows : InScope(r, sc)})
FinalSpend(sc) == sumCost({r \in usage_logs : InScope(r, sc)})
AtLeast(spend, pct, sc) == spend * 100 >= pct * (Ceiling(sc) * 10000)

\* Every writer has written within the scope, every evaluation has finished
\* without a datastore failure, all of it within the first month.
AllWritten(sc) ==
    /\ Cardinality(WriterRows) = NumReqs
    /\ \A r \in WriterRows : InScope(r, sc)
AllEvaluated == \A w \in Reqs : ev[w].pc = "done"
NoFailure ==
    \A w \in Reqs :
        ev[w].pc = "done" =>
            (ev[w].error = "none" /\ ev[w].orgAlert # "error" /\ ev[w].projAlert # "error")
FirstMonth == monthYear(now) = 0

\* Each of the concurrent writes, taken alone, pushes the spend of the scope
\* from below 50% to 50% or more of its ceiling.
EachPushesPast50(sc) ==
    /\ budgetSet(Ceiling(sc))
    /\ ~AtLeast(BaseSpend(sc), 50, sc)
    /\ \A r \in WriterRows : AtLeast(BaseSpend(sc) + r.cost_usd, 50, sc)

ConcurrentWritesDone(sc) ==
    AllWritten(sc) /\ AllEvaluated /\ NoFailure /\ FirstMonth /\ EachPushesPast50(sc)

\* C3 (as claimed): once N concurrent writes that each push the spend of a
\* scope past 50% have been evaluated, exactly one Alert row exists for
\* (scope, 50, period).
C3_ExactlyOneAlert50 ==
    \A sc \in Scopes :
        ConcurrentWritesDone(sc) => Cardinality(AlertsFor(sc, 50, 0)) = 1

\* C3 (amended): at most one Alert row exists for (scope, 50, period), and
\* exactly one exists when the spend after all N writes is still below 75%
\* of the ceiling.
C3_OneAlert50Below75 ==
    \A sc \in Scopes :
        ConcurrentWritesDone(sc) =>
            /\ Cardinality(AlertsFor(sc, 50, 0)) <= 1
            /\ ~AtLeast(FinalSpend(sc), 75, sc) => Cardinality(AlertsFor(sc, 50, 0)) = 1

\* C3 witness: both evaluations tried to insert the 50% alert of the
\* organization, and one row exists.
C3_Witness ==
    LET sc == <<"organization", "o1">>
    IN /\ ConcurrentWritesDone(sc)
       /\ ~AtLeast(FinalSpend(sc), 75, sc)
       /\ Cardinality(AlertsFor(sc, 50, 0)) = 1
       /\ \E w \in Reqs : ev[w].orgAlert = "already_sent"

\* The spend of the organization after its first k usage rows.
SpendAfter(k) ==
    sumCost({r \in usage_logs : r.organization_id = "o1" /\ r.id <= k})
Within(spend, lo, hi, sc) == AtLeast(spend, lo, sc) /\ ~AtLeast(spend, hi, sc)

\* C10: with a fixed organization ceiling and usage writes that do not
\* overlap, within one period: once the spend is in [50%, 75%) exactly one
\* Alert at 50 exists for the organization; once further writes have brought
\* it into [90%, 100%) an Alert at 90 exists as well and there is still
\* exactly one Alert at 50.
C10_LadderInSequence ==
    LET sc == <<"organization", "o1">>
        spend == FinalSpend(sc)
    IN (Quiescent /\ NoFailure /\ FirstMonth /\ budgetSet(Ceiling(sc))) =>
         /\ Within(spend, 50, 75, sc) => Cardinality(AlertsFor(sc, 50, 0)) = 1
         /\ (/\ Within(spend, 90, 100, sc)
             /\ \E k \in 1..Cardinality(usage_logs) : Within(SpendAfter(k), 50, 75, sc)) =>
                (/\ Cardinality(AlertsFor(sc, 90, 0)) = 1
                 /\ Cardinality(AlertsFor(sc, 50, 0)) = 1)

\* C10 witness: the spend went through [50%, 75%) and is now in [90%, 100%).
C10_Witness ==
    LET sc == <<"organization", "o1">>
    IN /\ Quiescent /\ NoFailure /\ FirstMonth /\ budgetSet(Ceiling(sc))
       /\ Within(FinalSpend(sc), 90, 100, sc)
       /\ \E k \in 1..Cardinality(usage_logs) : Within(SpendAfter(k), 50, 75, sc)
       /\ Cardinality(AlertsFor(sc, 90, 0)) = 1
       /\ Cardinality(AlertsFor(sc, 50, 0)) = 1

(***************************************************************************)
(* Requests through the proxy: claims                                      *)
(***************************************************************************)

Responded(r) == req[r].resp # NoResp
UpstreamReceived(r) == req[r].upstream.kind = "response"
RowsOf(r) == {row \in usage_logs : row.request_id = requestId(r)}
RowsWithTrace(id) == {row \in usage_logs : row.request_id = id}

\* The ledger write of request r failed: logUsage threw on its validation,
\* or the insert returned an error.
WriteFailed(r) == req[r].logged \in {"invalid", "error"}
WriteSucceeded(r) == req[r].logged = "ok"

\* The upstream status and body, with the trace identifier of the request.
PassThrough(r) ==
    [status |-> req[r].upstream.status, body |-> req[r].upstream.data,
     trace |-> req[r].requestId]

\* C1: for every forwarded request whose upstream response was received, a
\* failed ledger write (validation error or insert error) leaves the client
\* response as it is: status and body are the upstream's, the trace
\* identifier is the request's, and they equal, up to the trace identifier,
\* those of a request with the same upstream response whose write succeeded.
C1_LedgerFailureLeavesResponse ==
    /\ \A r \in Reqs : WriteFailed(r) => (UpstreamReceived(r) /\ req[r].resp = PassThrough(r))
    /\ \A r, s \in Reqs :
          (WriteFailed(r) /\ WriteSucceeded(s) /\ Responded(s)
              /\ req[r].upstream = req[s].upstream) =>
                 /\ req[r].resp.status = req[s].resp.status
                 /\ req[r].resp.body = req[s].resp.body
                 /\ req[r].resp.trace = requestId(r)
                 /\ req[s].resp.trace = requestId(s)

\* C1 witness: two requests got the same upstream response; the insert of
\* one failed, the insert of the other succeeded, and both were answered.
C1_Witness ==
    \E r, s \in Reqs :
        /\ req[r].logged = "error" /\ ev[r].pc = "failed" /\ RowsOf(r) = {}
        /\ WriteSucceeded(s) /\ RowsOf(s) # {}
        /\ req[r].upstream = req[s].upstream
        /\ Responded(r) /\ Responded(s)
        /\ req[r].resp.status = 200

\* C4 (as claimed): a request whose upstream response is available has been
\* answered; in no state is its response held back by the ledger write or by
\* the budget evaluation.
C4_ResponseNeverWaits ==
    \A r \in Reqs : UpstreamReceived(r) => Responded(r)

\* C4 (amended): a request whose upstream response is available and that is
\* not answered yet is waiting for its ledger insert to return, and for
\* nothing else; once the insert has returned (the write failed, or the
\* budget evaluation was started) the request is answered, whatever the
\* state of the budget evaluation.
C4_WaitsForInsertOnly ==
    /\ \A r \in Reqs :
          (UpstreamReceived(r) /\ ~Responded(r)) =>
              (req[r].pc = "insert" /\ ev[r].pc = "idle")
    /\ \A r \in Reqs : ev[r].pc # "idle" => Responded(r)

\* C4 witness: a request is answered while its budget evaluation has not
\* made its first read yet.
C4_Witness ==
    \E r \in Reqs :
        /\ Responded(r)
        /\ req[r].resp.status = 200
        /\ RowsOf(r) # {}
        /\ ev[r].pc = "budget"
        /\ ev[r].scope = "organization"

\* The body carries usage telemetry: a model and numeric token counts.
HasTelemetry(data) ==
    /\ data.model # NullId
    /\ data.usage.present
    /\ data.usage.prompt_tokens.type = "number"
    /\ data.usage.completion_tokens.type = "number"

\* The classes of answers that are not a success response.
FailureCodes ==
    {"invalid_api_key", "invalid_request", "invalid_model", "configuration_error",
     "decryption_error", "timeout", "internal_error"}

\* C8: every UsageRecord belongs to a request whose upstream call returned
\* status 200 with usage telemetry; a request that ended in an authentication
\* or validation failure, a configuration error, a timeout, an upstream error
\* status, or a 200 without telemetry has no UsageRecord.
C8_RecordOnlyForSuccessWithTelemetry ==
    /\ \A row \in usage_logs : \E r \in Reqs : row \in RowsOf(r)
    /\ \A r \in Reqs :
          RowsOf(r) # {} =>
              /\ UpstreamReceived(r)
              /\ req[r].upstream.status = 200
              /\ HasTelemetry(req[r].upstream.data)
    /\ \A r \in Reqs :
          (\/ (Responded(r) /\ req[r].resp.body.kind \in FailureCodes)
           \/ (Responded(r) /\ req[r].resp.status # 200)
           \/ (UpstreamReceived(r) /\ ~HasTelemetry(req[r].upstream.data))) =>
              RowsOf(r) = {}

\* C8 witness: one request has its UsageRecord; another got a 200 without a
\* usage object and has none.
C8_Witness ==
    \E r, s \in Reqs :
        /\ RowsOf(r) # {}
        /\ Responded(s)
        /\ req[s].resp.status = 200
        /\ req[s].upstream.data.model # NullId
        /\ ~req[s].upstream.data.usage.present
        /\ RowsOf(s) = {}

\* C9: a request made with a valid active credential and an allowlisted
\* model that got a 200 with usage telemetry, and whose ledger write did not
\* fail, has exactly one UsageRecord once it is answered, and the trace
\* identifier of that record is the one in the response header.
C9_OneRecordWithTraceId ==
    \A r \in Reqs :
        (/\ Responded(r)
         /\ req[r].key.id # NULL
         /\ req[r].model \in getSupportedModels
         /\ UpstreamReceived(r)
         /\ req[r].upstream.status = 200
         /\ HasTelemetry(req[r].upstream.data)
         /\ ~WriteFailed(r)) =>
            /\ req[r].resp.trace # NullId
            /\ Cardinality(RowsWithTrace(req[r].resp.trace)) = 1
            /\ Cardinality(RowsOf(r)) = 1

\* C9 witness: two requests were answered with a 200 and each has its one
\* UsageRecord under its own trace identifier.
C9_Witness ==
    /\ \A r \in Reqs :
          /\ Responded(r)
          /\ req[r].resp.status = 200
          /\ Cardinality(RowsWithTrace(req[r].resp.trace)) = 1
    /\ Cardinality(usage_logs) = NumReqs

Finished(r) == req[r].pc = "done"
Forwarded(r) == req[r].openaiKey # NoString
UnsupportedModel(r) == req[r].model # NullId /\ req[r].model \notin getSupportedModels
Verified(r) == req[r].key.id # NULL

\* C11 (as claimed): every request whose model is not in the allowlist ends
\* in HTTP 400 with code invalid_model, without an outbound call and without
\* a UsageRecord.
C11_UnsupportedModelIs400 ==
    \A r \in Reqs :
        UnsupportedModel(r) =>
            /\ ~Forwarded(r)
            /\ RowsOf(r) = {}
            /\ Finished(r) =>
                  (req[r].resp.status = 400 /\ req[r].resp.body.kind = "invalid_model")

\* C11 (amended): a request whose model is not in the allowlist never issues
\* an outbound call and never creates a UsageRecord; it ends in HTTP 400
\* with code invalid_model when its credential was verified, and otherwise
\* in the failure found before the allowlist check (401 invalid_api_key, or
\* 400 invalid_request for a malformed body).
C11_VerifiedUnsupportedModelIs400 ==
    \A r \in Reqs :
        UnsupportedModel(r) =>
            /\ ~Forwarded(r)
            /\ RowsOf(r) = {}
            /\ (Finished(r) /\ Verified(r)) =>
                  (req[r].resp.status = 400 /\ req[r].resp.body.kind = "invalid_model")
            /\ (Finished(r) /\ ~Verified(r)) =>
                  \/ (req[r].resp.status = 401 /\ req[r].resp.body.kind = "invalid_api_key")
                  \/ (req[r].resp.status = 400 /\ req[r].resp.body.kind = "invalid_request")

\* C11 witness: a request with a verified credential and the model gpt-5 was
\* answered 400 invalid_model, while another request was forwarded.
C11_Witness ==
    \E r, s \in Reqs :
        /\ Finished(r) /\ Verified(r) /\ req[r].model = "gpt-5"
        /\ req[r].resp.status = 400 /\ req[r].resp.body.kind = "invalid_model"
        /\ ~Forwarded(r) /\ RowsOf(r) = {}
        /\ Forwarded(s)

(***************************************************************************)
(* Claims about the stored upstream secret                                 *)
(***************************************************************************)

\* The organizations row of request r was read, and what it holds.
RowRead(r) == req[r].orgRow = "found"
StoredOf(r) == orgKey[req[r].key.organization_id]

\* The stored values that are the bundle with a part changed or removed.
TamperedBundles == StoredValues \ {NoString, PlainKey, encrypt(PlainKey)}
ConfigurationCodes == {"configuration_error", "decryption_error"}

\* C16: whenever the stored upstream secret is a corrupted or tampered
\* bundle (a changed tag, a part that is no longer hex, a missing part), the
\* request ends in a configuration error, no outbound call is issued, and
\* the stored value is never the outbound credential.
C16_TamperedBundleIsNeverForwarded ==
    \A r \in Reqs :
        (RowRead(r) /\ StoredOf(r) \in TamperedBundles) =>
            /\ ~Forwarded(r)
            /\ req[r].openaiKey # StoredOf(r)
            /\ Finished(r) => req[r].resp.body.kind \in ConfigurationCodes

\* C17: a request with a verified credential and an allowlisted model whose
\* organization has no upstream secret configured is answered with code
\* configuration_error, not with the generic internal_error, and no
\* outbound call is issued.
C17_NotConfiguredIsConfigurationError ==
    \A r \in Reqs :
        (RowRead(r) /\ StoredOf(r) = NoString) =>
            /\ ~Forwarded(r)
            /\ Finished(r) =>
                  (req[r].resp.status = 500 /\ req[r].resp.body.kind = "configuration_error")

(***************************************************************************)
(* Claims about startup                                                    *)
(***************************************************************************)

Served(r) == req[r].pc # "idle"
WellFormedSecrets ==
    /\ server.OPENAI_KEY_ENCRYPTION_SECRET = "hex64"
    /\ server.PROXY_KEY_SECRET = "set"

\* C18: the process accepts traffic only if the master encryption key and
\* the pepper are both present and well-formed (the master key: 64 hex
\* characters); otherwise startup fails and no request is ever served.
C18_ServesOnlyWithWellFormedSecrets ==
    /\ server.state = "listening" => WellFormedSecrets
    /\ \A r \in Reqs : Served(r) => WellFormedSecrets

(***************************************************************************)
(* Claims about failed verifications                                       *)
(***************************************************************************)

VerificationFailed(r) == Finished(r) /\ req[r].authFailure # "none"
InvalidKeyResponse ==
    [status |-> 401, body |-> ErrorBody("invalid_api_key", MsgInvalidKey), trace |-> NullId]

\* C14: every failed credential verification gives the same client-visible
\* outcome, HTTP 401 with message 'Invalid or revoked proxy key' and code
\* invalid_api_key, whether the secret is unknown, belongs to a revoked
\* credential, no credential is active, or the lookup failed; the response
\* does not depend on the cause.
C14_FailedVerificationLooksTheSame ==
    /\ \A r \in Reqs : req[r].authFailure # "none" => Finished(r)
    /\ \A r \in Reqs : VerificationFailed(r) => req[r].resp = InvalidKeyResponse
    /\ \A r, s \in Reqs :
          (VerificationFailed(r) /\ VerificationFailed(s)) => req[r].resp = req[s].resp

\* C14 witness: one verification failed on a revoked credential and another
\* on the lookup, and both were answered with the same 401.
C14_Witness ==
    \E r, s \in Reqs :
        /\ VerificationFailed(r) /\ req[r].authFailure = "revoked"
        /\ VerificationFailed(s) /\ req[s].authFailure = "lookup"
        /\ req[r].resp = InvalidKeyResponse /\ req[s].resp = InvalidKeyResponse

(***************************************************************************)
(* Claims about costs                                                      *)
(***************************************************************************)

Priced == ret.op = "cost"
\* The cost before rounding, in hundredths of a micro-dollar.
unrounded ==
    ret.prompt_tokens * getPricingTable[ret.model].prompt
        + ret.completion_tokens * getPricingTable[ret.model].completion

\* C15 (as claimed): for every model of the price table and all token counts
\* p and c, calculateCost(model, 2p, 2c) is exactly twice
\* calculateCost(model, p, c) after the rounding to 6 decimals, and
\* calculateCost(model, 0, 0) is 0.
C15_DoublingDoublesCost ==
    Priced =>
        /\ ret.doubled = 2 * ret.cost
        /\ (ret.prompt_tokens = 0 /\ ret.completion_tokens = 0) => ret.cost = 0

\* C15 (amended): the cost of the doubled counts differs from twice the cost
\* by at most one micro-dollar, and is exactly twice the cost when the
\* unrounded cost is a whole number of micro-dollars; the cost of zero tokens
\* is 0.
C15_DoublingWithinOneMicroDollar ==
    Priced =>
        /\ ret.doubled - 2 * ret.cost \in {0 - 1, 0, 1}
        /\ unrounded % 100 = 0 => ret.doubled = 2 * ret.cost
        /\ (ret.prompt_tokens = 0 /\ ret.completion_tokens = 0) => ret.cost = 0

\* C15 witness: 3 prompt tokens of gpt-4o-mini cost 0.45 micro-dollars,
\* rounded to 0, and 6 cost 0.9, rounded to 1.
C15_Witness ==
    /\ Priced /\ ret.model = "gpt-4o-mini"
    /\ ret.prompt_tokens = 3 /\ ret.completion_tokens = 0
    /\ ret.cost = 0 /\ ret.doubled = 1

(***************************************************************************)
(* Claims about the outbound headers                                       *)
(***************************************************************************)

SameOrganization(r, s) == req[r].key.organization_id = req[s].key.organization_id
AgreeOn(r, s, header) == req[r].headers[header] = req[s].headers[header]
AuthorizationText(authHeader) == authHeader.scheme \o " " \o authHeader.credentials

\* C13: the headers of an outbound call are a function only of the resolved
\* organization's decrypted upstream secret and of the inbound accept and
\* user-agent: two requests that resolve to the same organization and agree
\* on accept and user-agent are sent with identical headers whatever their
\* other inbound headers, and the outbound Authorization is the bearer of the
\* decrypted secret, never the inbound value.
C13_OutboundHeadersFromSecretAcceptUserAgent ==
    /\ \A r, s \in Reqs :
          (Forwarded(r) /\ Forwarded(s) /\ SameOrganization(r, s)
              /\ AgreeOn(r, s, "accept") /\ AgreeOn(r, s, "user-agent"))
          => req[r].forwardHeaders = req[s].forwardHeaders
    /\ \A r \in Reqs :
          Forwarded(r) =>
              /\ req[r].forwardHeaders["Authorization"] = "Bearer " \o join(PlainKey.parts)
              /\ req[r].forwardHeaders["Authorization"]
                     # AuthorizationText(req[r].headers["authorization"])

\* C13 witness: two forwarded requests with different credentials and
\* different openai-organization headers, the same accept and user-agent,
\* and the same outbound headers.
C13_Witness ==
    \E r, s \in Reqs :
        /\ Forwarded(r) /\ Forwarded(s)
        /\ req[r].headers["authorization"] # req[s].headers["authorization"]
        /\ req[r].headers["openai-organization"] = "org-other"
        /\ req[s].headers["openai-organization"] = ""
        /\ AgreeOn(r, s, "accept") /\ req[r].headers["accept"] = "text/event-stream"
        /\ AgreeOn(r, s, "user-agent") /\ req[r].headers["user-agent"] = ""
        /\ req[r].forwardHeaders = req[s].forwardHeaders
        /\ DOMAIN req[r].forwardHeaders = {"Content-Type", "Authorization", "Accept"}

(***************************************************************************)
(* Claims about failures during the budget check                           *)
(***************************************************************************)

CheckStarted(w) == ev[w].pc \notin {"idle", "failed"}
\* A read of the evaluation threw, or an alert insert failed with an error
\* that is not a duplicate.
CheckThrew(w) == CheckStarted(w) /\ ev[w].error # "none"
AlertInsertFailed(w) ==
    CheckStarted(w) /\ (ev[w].orgAlert = "error" \/ ev[w].projAlert = "error")

\* C20: checkBudgets never fails towards its caller: whichever read or alert
\* insert fails during the evaluation, the call completes normally (it is
\* never rejected), and the usage row whose insert started it stays
\* committed, with the response of its request as the upstream gave it.
C20_CheckBudgetsNeverFailsItsCaller ==
    \A w \in Reqs :
        /\ CheckStarted(w) => ev[w].pc # "rejected"
        /\ CheckThrew(w) => ev[w].pc = "done"
        /\ (CheckThrew(w) \/ AlertInsertFailed(w)) =>
              /\ Cardinality(RowsOf(w)) = 1
              /\ req[w].logged = "ok"
              /\ req[w].resp = PassThrough(w)

\* C20 witness: one evaluation ended on a failed spend query and another had
\* its alert insert fail; both completed, and both usage rows are there.
C20_Witness ==
    \E w, x \in Reqs :
        /\ CheckThrew(w) /\ ev[w].error = "spend query" /\ ev[w].pc = "done"
        /\ AlertInsertFailed(x) /\ ev[x].pc = "done" /\ ev[x].error = "none"
        /\ RowsOf(w) # {} /\ RowsOf(x) # {}
        /\ req[w].resp = PassThrough(w) /\ req[x].resp = PassThrough(x)

(***************************************************************************)
(* Claims about budgets and the request path                               *)
(***************************************************************************)

\* The request passed the route's checks and was handed to proxyChatCompletion.
Proxied(r) == req[r].requestId # NullId

\* The same inbound request, and the same results of the credential lookup,
\* of the read of the upstream secret and of the upstream call.
SameRequest(r, s) ==
    /\ Proxied(r) /\ Proxied(s)
    /\ req[r].proxyKey = req[s].proxyKey
    /\ req[r].model = req[s].model
    /\ req[r].headers = req[s].headers
SameCollaborators(r, s) ==
    /\ req[r].authFailure = req[s].authFailure
    /\ req[r].orgRow = req[s].orgRow
    /\ req[r].upstream = req[s].upstream

\* The organization's month-to-date spend has reached its budget, and the
\* alert of the 100% threshold is recorded.
OverBudget(o) ==
    /\ budgetSet(orgBudget[o])
    /\ crossed(calculateMTDSpend(usage_logs, o, NullId, startOfMonth(now)), orgBudget[o], 100)
    /\ \E a \in alerts : a.organization_id = o /\ a.threshold_percent = 100

\* C19: no budget, spend or alert state changes the outcome of a proxied
\* request: two proxied requests that are the same and whose collaborators answered
\* the same are both forwarded or both not, and get the same status and body,
\* whatever the budgets, the month-to-date spend and the alert rows were when
\* each was handled; a forwarded request whose upstream answered gets the
\* upstream's answer.
C19_BudgetStateNeverChangesOutcome ==
    /\ \A r, s \in Reqs :
          (Finished(r) /\ Finished(s) /\ SameRequest(r, s) /\ SameCollaborators(r, s)) =>
              /\ Forwarded(r) <=> Forwarded(s)
              /\ req[r].resp.status = req[s].resp.status
              /\ req[r].resp.body = req[s].resp.body
    /\ \A r \in Reqs :
          (Finished(r) /\ UpstreamReceived(r)) => req[r].resp = PassThrough(r)

\* C19 witness: the month had a usage row of 0.4 cents, the first request
\* added 0.6 cents and took the organization's spend to 100% of its budget of
\* one cent, and the alert was recorded; the same request, whose row was
\* inserted after the first one's, was forwarded and answered 200 like the
\* first.
C19_Witness ==
    \E r, s \in Reqs :
        /\ r # s /\ Finished(r) /\ Finished(s)
        /\ SameRequest(r, s) /\ SameCollaborators(r, s)
        /\ Forwarded(r) /\ Forwarded(s)
        /\ priorRow \in usage_logs
        /\ \E a \in RowsOf(r), b \in RowsOf(s) : a.id < b.id
        /\ OverBudget("o1")
        /\ req[r].resp.status = 200 /\ req[s].resp.status = 200
        /\ req[r].resp.body = req[s].resp.body

(***************************************************************************)
(* Claims about the rate limiters                                          *)
(***************************************************************************)

ToProxyEndpoint == limiter.last.bearer # "none"
Throttled == limiter.last.outcome \in {"proxy_429", "global_429"}

C21_LedgerOnlyGrows == [][usage_logs \subseteq usage_logs']_vars

(***************************************************************************)
(* Claims about the stages of a request                                    *)
(***************************************************************************)

\* The stages a request has passed, read from the position of its handler.
CredentialVerified(r) == Verified(r)
ModelValidated(r) == Verified(r) /\ req[r].model \in getSupportedModels
SecretResolved(r) == req[r].openaiKey # NoString
BodyRejected(r) == Finished(r) /\ req[r].resp.body.kind = "invalid_request"
ModelRejected(r) == Finished(r) /\ req[r].resp.body.kind = "invalid_model"

\* The positions that follow each position of the handler.
StageAfter ==
    [idle |-> {"verify", "done"}, verify |-> {"secret", "done"},
     secret |-> {"upstream", "done"}, upstream |-> {"insert", "done"},
     insert |-> {"done"}, done |-> {}]

\* The terminal outcomes.
Completed(r) == Finished(r) /\ UpstreamReceived(r) /\ req[r].upstream.status = 200
UpstreamError(r) == Finished(r) /\ UpstreamReceived(r) /\ req[r].upstream.status # 200
Failed(r) ==
    Finished(r) /\ ~UpstreamReceived(r) /\ req[r].resp.body.kind \in FailureCodes
OneOutcome(r) ==
    /\ Completed(r) \/ UpstreamError(r) \/ Failed(r)
    /\ ~(Completed(r) /\ UpstreamError(r))
    /\ ~(Completed(r) /\ Failed(r))
    /\ ~(UpstreamError(r) /\ Failed(r))

\* The order of the stages from the credential check on, and the outcome.
StagesInOrder ==
    /\ [](\A r \in Reqs :
            /\ req[r].pc \in {"secret", "upstream", "insert"} => ModelValidated(r)
            /\ ModelRejected(r) => CredentialVerified(r)
            /\ SecretResolved(r) => (ModelValidated(r) /\ RowRead(r))
            /\ Forwarded(r) => (CredentialVerified(r) /\ ModelValidated(r) /\ SecretResolved(r))
            /\ req[r].upstream # NoUpstream => Forwarded(r)
            /\ Finished(r) => OneOutcome(r))
    /\ [][\A r \in Reqs :
            /\ req'[r].pc # req[r].pc => req'[r].pc \in StageAfter[req[r].pc]
            /\ Finished(r) => req'[r] = req[r]]_vars

\* C22 (as claimed): every request passes the stages Received,
\* CredentialVerified, ModelValidated, SecretResolved, Forwarded in this order
\* and ends in exactly one terminal outcome; the body and the model are
\* validated only after the credential has been verified.
C22_StagesInOrderBodyAfterCredential ==
    /\ StagesInOrder
    /\ [](\A r \in Reqs : BodyRejected(r) => CredentialVerified(r))

\* C22 (amended): the shape of the body (a model name, a non-empty messages
\* array) is validated on receipt, before the credential is verified, so a
\* malformed body is rejected without any credential check; from there on
\* the stages are passed in order: the model is checked against the
\* allowlist only after the credential has been verified, the upstream
\* secret is resolved only after that, the outbound call is issued only
\* after all three, and every request ends in exactly one terminal outcome.
C22_StagesInOrderBodyOnReceipt ==
    /\ StagesInOrder
    /\ [](\A r \in Reqs :
            BodyRejected(r) => (~CredentialVerified(r) /\ req[r].authFailure = "none"))

\* C22 witness: one request was completed after passing every stage, and a
\* request with a well-formed body, an unknown model and a revoked
\* credential failed at the credential check.
C22_Witness ==
    \E r, s \in Reqs :
        /\ Completed(r) /\ RowsOf(r) # {}
        /\ Failed(s) /\ req[s].model = "gpt-5" /\ req[s].authFailure = "revoked"
        /\ req[s].resp.status = 401

(***************************************************************************)
(* Claims about the evaluation of one scope                                *)
(***************************************************************************)

Ladder == {50, 75, 90, 100}

\* The spend of the scope of an evaluation since the start of its month.
ScopeSpend(e) ==
    sumCost({r \in usage_logs : InScope(r, EvalScope(e)) /\ r.created_at >= e.since})

\* percentUsed = spend / ceiling * 100 is at least t: for a ceiling of 0 the
\* quotient is infinite when there is spend, and not a number without.
PercentAtLeast(spend, ceiling, t) ==
    IF ceiling = 0 THEN spend > 0 ELSE spend * 100 >= t * (ceiling * 10000)
HighestAtOrBelow(spend, ceiling) ==
    LET reached == {t \in Ladder : PercentAtLeast(spend, ceiling, t)}
    IN IF reached = {} THEN NULL ELSE CHOOSE t \in reached : \A u \in reached : u <= t

\* After the spend of its scope was read, evaluation w attempts the insert of
\* one Alert, for threshold t of that scope, or attempts none (t = NULL).
AttemptsExactly(w, t) ==
    IF t = NULL
    THEN ev'[w].pc # "alert"
    ELSE /\ ev'[w].pc = "alert"
         /\ ev'[w].threshold = t
         /\ EvalScope(ev'[w]) = EvalScope(ev[w])

\* C23 (as claimed): for every scope whose ceiling is non-null, each
\* evaluation attempts to insert exactly one Alert, for the highest ladder
\* threshold at or below percentUsed = spend / ceiling * 100, and none when
\* percentUsed is below 50; with a null ceiling no Alert is attempted.
C23_OneAttemptForNonNullCeiling ==
    [][\A w \in Reqs :
          SpendRead(w, FALSE) =>
              AttemptsExactly(w, IF ev[w].budget = NULL THEN NULL
                                 ELSE HighestAtOrBelow(ScopeSpend(ev[w]), ev[w].budget))]_vars

\* C23 (amended): the same for every scope whose ceiling is non-null and
\* greater than 0; with a ceiling that is null or 0 no Alert is attempted,
\* whatever the spend.
C23_OneAttemptForPositiveCeiling ==
    [][\A w \in Reqs :
          SpendRead(w, FALSE) =>
              AttemptsExactly(w, IF ev[w].budget = NULL \/ ev[w].budget = 0 THEN NULL
                                 ELSE HighestAtOrBelow(ScopeSpend(ev[w]), ev[w].budget))]_vars

\* C23 witness: an evaluation is about to insert the 75% alert of project
\* p1, and another evaluation went through project p2, whose ceiling is 0
\* and which has spend, without attempting an alert.
C23_Witness ==
    \E w, x \in Reqs :
        /\ ev[w].pc = "alert" /\ ev[w].scope = "project" /\ ev[w].project_id = "p1"
        /\ ev[w].threshold = 75
        /\ ev[x].pc = "done" /\ ev[x].project_id = "p2" /\ projBudget["p2"] = 0
        /\ ev[x].error = "none" /\ ev[x].projAlert = "none"
        /\ \E r \in usage_logs : r.project_id = "p2"

(***************************************************************************)
(* Claims about the two scopes of one evaluation                           *)
(***************************************************************************)

\* The call of checkBudgets of write w has ended, and it got as far as the
\* project scope.
CheckEnded(w) == ev[w].pc = "done"
ProjectScopeReached(w) == ev[w].scope = "project"

\* C24: evaluate(organizationId, projectId) treats the two scopes
\* independently: whenever the project has a ceiling, the project scope is
\* evaluated, whatever the outcome of the organization scope (no ceiling, a
\* failed budget lookup or spend query, a failed alert insert).
C24_ProjectScopeEvaluatedWhateverOrgOutcome ==
    \A w \in Reqs :
        (CheckEnded(w) /\ projBudget[ev[w].project_id] # NULL) => ProjectScopeReached(w)

(***************************************************************************)
(* Claims about revocation while requests are in flight                    *)
(***************************************************************************)

\* The credential that verified request r has been revoked since.
Revoked(k) == k \in KeyIds /\ proxy_keys[k].present /\ ~proxy_keys[k].is_active
CredentialRevoked(r) == Revoked(req[r].key.id)

\* C25: once revoke(c) has completed, no outbound call is issued and no
\* UsageRecord is appended on behalf of credential c, for any interleaving of
\* the revocation with requests presenting c's secret, requests in flight at
\* the revocation included.
C25_NothingOnBehalfOfRevoked ==
    [][\A r \in Reqs :
          CredentialRevoked(r) =>
              /\ Forwarded(r)' => Forwarded(r)
              /\ RowsOf(r)' \subseteq RowsOf(r)]_vars

(***************************************************************************)
(* Claims about the contents of usage rows                                 *)
(***************************************************************************)

\* The model of the row is priced, and the row carries that price and the
\* cost computed from it.
PricedRow(row) ==
    /\ row.model \in DOMAIN getPricingTable
    /\ row.price_prompt_per_million # NULL
    /\ row.price_completion_per_million # NULL
    /\ row.cost_usd =
          roundHundredths(row.tokens_prompt * row.price_prompt_per_million
                          + row.tokens_completion * row.price_completion_per_million)

\* C26: every UsageRecord written through the forwarding path carries a
\* model that is in the price table, hence a non-null price snapshot and a
\* cost computed from that snapshot.
C26_EveryRecordIsPriced == \A row \in usage_logs : PricedRow(row)

\* The credential row a usage row refers to.
CredentialOf(row) == proxy_keys[row.proxy_key_id]

\* C29: the organization, project and credential of every UsageRecord are
\* those of the ProxyCredential that verified the request which produced
\* it, whatever the client put in the request's body and headers.
C29_RecordAttributedToVerifiedCredential ==
    \A row \in usage_logs :
        \E r \in Reqs :
            /\ row \in RowsOf(r)
            /\ row.proxy_key_id = req[r].key.id
            /\ row.proxy_key_id \in KeyIds
            /\ CredentialOf(row).present
            /\ CredentialOf(row).key_value = hashKeyValue(req[r].proxyKey)
            /\ row.organization_id = CredentialOf(row).organization_id
            /\ row.project_id = CredentialOf(row).project_id

\* C29 witness: the request that presented the credential of project p1
\* named project p2 in a header, and its UsageRecord is in p1; another
\* request has its UsageRecord in p2.
C29_Witness ==
    \E r, s \in Reqs :
        /\ req[r].proxyKey = "s1" /\ req[r].headers["openai-organization"] = "p2"
        /\ \E row \in RowsOf(r) : row.project_id = "p1" /\ row.proxy_key_id = 1
        /\ \E row \in RowsOf(s) : row.project_id = "p2" /\ row.proxy_key_id = 2

(***************************************************************************)
(* Claims about alert rows                                                 *)
(***************************************************************************)

\* The rows a step adds to the alerts table.
NewAlerts == alerts' \ alerts

\* C27: the period key of every Alert row is the calendar month over which
\* the observed spend of the row was summed: no evaluation records the spend
\* computed for month M under the period key of month M+1, even when the
\* month rolls over during the evaluation.
C27_PeriodKeyIsMonthOfSpend ==
    [][\A w \in Reqs :
          (ev[w].pc = "alert" /\ AlertInsert(w, FALSE)) =>
              \A a \in NewAlerts : a.month_year = monthYear(ev[w].since)]_vars


\* C28: in every reachable state every Alert row has a threshold in
\* {50, 75, 90, 100} and a ceiling amount greater than 0, and the spend that
\* the evaluation which inserted the row had read is at least threshold
\* percent of the ceiling it had read (spend * 100 >= threshold * ceiling);
\* the row holds that ceiling, and that spend rounded to cents.
C28_AlertRowsAreCrossings ==
    /\ [](\A a \in alerts : a.threshold_percent \in Ladder /\ a.budget_amount > 0)
    /\ [][\A w \in Reqs :
            (ev[w].pc = "alert" /\ AlertInsert(w, FALSE)) =>
                \A a \in NewAlerts :
                    /\ a.threshold_percent = ev[w].threshold
                    /\ a.budget_amount = ev[w].budget
                    /\ a.actual_spend = toCents(ev[w].actual)
                    /\ ev[w].actual * 100 >= a.threshold_percent * (a.budget_amount * 10000)
                    /\ AlertScope(a) = EvalScope(ev[w])]_vars

\* C28 witness: the organization has its alert of 50% and its alert of 90%,
\* and a project has an alert of its own.
C28_Witness ==
    \E a, b, c \in alerts :
        /\ a.project_id = NullId /\ a.threshold_percent = 50 /\ a.budget_amount = 1
        /\ b.project_id = NullId /\ b.threshold_percent = 90
        /\ c.project_id = "p1"

(***************************************************************************)
(* Claims about the eventual alert                                         *)
(***************************************************************************)

\* The usage row of write w is in the ledger, it belongs to scope sc and to
\* month m, the scope has a positive ceiling, the spend of the scope in month
\* m is at 50% of it or more, and the evaluation the write started has not
\* made its first read.
MonthSpend(sc, m) ==
    sumCost({r \in usage_logs : InScope(r, sc) /\ monthYear(r.created_at) = m})
WrittenPast50(w, sc, m) ==
    /\ ev[w].pc = "budget" /\ ev[w].scope = "organization"
    /\ monthYear(now) = m
    /\ \E r \in RowsOf(w) : InScope(r, sc) /\ monthYear(r.created_at) = m
    /\ budgetSet(Ceiling(sc))
    /\ AtLeast(MonthSpend(sc, m), 50, sc)

AlertExists(sc, m) == \E t \in Ladder : AlertsFor(sc, t, m) # {}

\* A read or the alert insert of evaluation w failed.
EvaluationFailed(w) ==
    /\ ev[w].pc = "done"
    /\ ev[w].error # "none" \/ ev[w].orgAlert = "error" \/ ev[w].projAlert = "error"

\* Month m was over while evaluation w had still to read the clock for
\* scope sc: calculateMTDSpend will sum the spend of the month after m.
RolledOverBeforeRead(w, sc, m) ==
    ev[w].pc = "budget" /\ ev[w].scope = sc[1] /\ monthYear(now) # m

Months == 0..monthYear(MaxTime)

\* The scopes of the writes of LiveLogUsage.
LiveScopes == {<<"organization", "o1">>, <<"project", "p1">>}

\* C30 (as claimed): if a UsageRecord insert succeeds for a scope whose
\* ceiling is positive and the month-to-date spend of the scope with that
\* record is at least 50% of the ceiling, then, unless a datastore read or
\* the alert insert of the evaluation fails, an Alert for that scope and the
\* period of the record eventually exists.
C30_AlertEventuallyExists ==
    \A w \in Reqs, sc \in LiveScopes, m \in Months :
        WrittenPast50(w, sc, m) ~> (AlertExists(sc, m) \/ EvaluationFailed(w))

\* C30 (amended): the same, unless the month of the record ends before the
\* evaluation has read the clock for the scope, and with the Alert under the
\* period key of the record's month or of the month after it: recordAlert
\* reads the clock again once the spend query has returned.
C30_AlertEventuallyExistsUnlessRolledOver ==
    \A w \in Reqs, sc \in LiveScopes, m \in Months :
        WrittenPast50(w, sc, m) ~>
            \/ AlertExists(sc, m) \/ AlertExists(sc, m + 1)
            \/ EvaluationFailed(w)
            \/ RolledOverBeforeRead(w, sc, m)

\* C30 witness: the write into project p1 took the project to 50% of its
\* ceiling, its evaluation has finished without a failure, and the Alert of
\* the project for the month exists.
C30_Witness ==
    \E w \in Reqs :
        /\ ev[w].pc = "done" /\ ~EvaluationFailed(w) /\ ev[w].projAlert = "recorded"
        /\ \E r \in RowsOf(w) : r.project_id = "p1" /\ monthYear(r.created_at) = 0
        /\ AlertExists(<<"project", "p1">>, 0)
        /\ AtLeast(MonthSpend(<<"project", "p1">>, 0), 50, <<"project", "p1">>)

====
